---------------------------- MODULE Spec2Model ----------------------------
(***************************************************************************)
(* SolKit: the template engine (src/core/template-engine.ts) and the       *)
(* source patchers of the framework integrations                           *)
(* (src/frameworks/nextjs/index.ts, src/frameworks/vue/index.ts).          *)
(*                                                                         *)
(* A text is a sequence of lexemes.  Each lexeme is a TLA+ string holding  *)
(* the characters it stands for; the regular expressions of the source     *)
(* are evaluated over lexemes, each lexeme class being the set of lexemes  *)
(* whose characters the corresponding part of the expression accepts.      *)
(***************************************************************************)
EXTENDS Integers, Sequences, FiniteSets, TLC

VARIABLES
    tpl,        \* template text handed to processTemplate
    ctx,        \* the TemplateContext of the render
    out,        \* what processTemplate returned
    rendered,   \* whether processTemplate has run
    fam,        \* the kind of pre-existing file a patcher is run on
    present,    \* whether that file exists in the project
    file,       \* its content
    prev,       \* its content before the latest run of the patcher
    runs,       \* how many times the patcher has run
    res,        \* what the latest run did: written or not, what it logged, its anchor
    pc,         \* the step of InitCommand.execute that comes next
    opts,       \* the options and the configuration of the run, its clock and start
    proj,       \* the files of the project init works on
    writes,     \* the writes made so far: file, whether it existed, whether guarded, when
    passes,     \* how many times init has been started
    copy        \* a call of the template copy: its source, its target, what it did

tvars == <<tpl, ctx, out, rendered, copy>>
pvars == <<fam, present, file, prev, runs, res>>
ivars == <<pc, opts, proj, writes, passes>>
vars == <<tpl, ctx, out, rendered, fam, present, file, prev, runs, res,
          pc, opts, proj, writes, passes, copy>>

(***************************************************************************)
(* Bounds of the model.                                                    *)
(***************************************************************************)
MaxTplLen == 5
MaxFileLen == 5
MaxRuns == 2
MaxPasses == 2
MaxNameLen == 3

(***************************************************************************)
(* Generic text helpers.                                                   *)
(***************************************************************************)
RECURSIVE SeqsUpTo(_, _)
SeqsUpTo(S, n) ==
    IF n = 0 THEN {<<>>}
    ELSE LET shorter == SeqsUpTo(S, n - 1)
         IN  shorter \cup {Append(s, x) : s \in {t \in shorter : Len(t) = n - 1}, x \in S}

Slice(s, i, j) == IF i > j THEN <<>> ELSE SubSeq(s, i, j)

NoResult == [wrote |-> FALSE, log |-> {}, imported |-> <<>>, anchor |-> [found |-> FALSE]]

Absent == [exists |-> FALSE, content |-> <<>>]
File(content) == [exists |-> TRUE, content |-> content]

\* a project without package.json: the dependencies of a manifest are a set
NoManifest == [exists |-> FALSE, content |-> {}]

\* the values of the variables of init while init is not running
NoProject == [packageJson |-> NoManifest, solkitrc |-> Absent, envLocal |-> Absent,
              envExample |-> Absent, page |-> Absent, nextConfig |-> Absent,
              entry |-> Absent, appKit |-> Absent, solanaWallet |-> Absent,
              solanaExample |-> Absent]

InitIdle ==
    /\ pc = "idle"
    /\ opts = [isAppRouter |-> FALSE, before |-> {}]
    /\ proj = NoProject
    /\ writes = {}
    /\ passes = 0

(***************************************************************************)
(* Template engine: values of a context.                                   *)
(***************************************************************************)
Undef == [t |-> "undefined"]
Null == [t |-> "null"]
Str(s) == [t |-> "string", s |-> s]
Num(n) == [t |-> "number", n |-> n]
Obj(f) == [t |-> "object", f |-> f]

\* value[part] of JavaScript for the values of the model: an own key of an
\* object, undefined for anything else (a string or a number has no key "a").
Prop(value, part) ==
    IF value.t = "object" /\ Len(part) = 1 /\ part[1] \in DOMAIN value.f
    THEN value.f[part[1]]
    ELSE Undef

\* String(value)
StringOf(value) ==
    CASE value.t = "string" -> value.s
      [] value.t = "number" -> <<ToString(value.n)>>
      [] value.t = "null" -> <<"null">>
      [] value.t = "object" -> <<"[object Object]">>
      [] OTHER -> <<"undefined">>

\* placeholder.trim()
IsSpace(x) == x \in {" ", "\n"}

RECURSIVE TrimLeft(_)
TrimLeft(s) ==
    IF s # <<>> /\ IsSpace(Head(s)) THEN TrimLeft(Tail(s)) ELSE s

RECURSIVE TrimRight(_)
TrimRight(s) ==
    IF s # <<>> /\ IsSpace(s[Len(s)]) THEN TrimRight(Slice(s, 1, Len(s) - 1)) ELSE s

Trim(s) == TrimRight(TrimLeft(s))

\* path.split(".")
RECURSIVE SplitDots(_, _)
SplitDots(s, cur) ==
    IF s = <<>> THEN <<cur>>
    ELSE IF Head(s) = "." THEN <<cur>> \o SplitDots(Tail(s), <<>>)
    ELSE SplitDots(Tail(s), Append(cur, Head(s)))

\* the for loop of getValueFromContext
RECURSIVE Walk(_, _)
Walk(value, parts) ==
    IF parts = <<>> THEN value
    ELSE IF value.t \in {"undefined", "null"} THEN Undef
    ELSE Walk(Prop(value, Head(parts)), Tail(parts))

\* the value the loop ends with, or Undef for the early return
WalkResult(path, context) == Walk(context, SplitDots(path, <<>>))

\* two variants of getValueFromContext: a final null counted as missing, and
\* an empty string counted as missing
GetValueFromContextNullIsMissing(path, context) ==
    LET value == WalkResult(path, context)
    IN  IF value.t \in {"undefined", "null"} THEN Undef ELSE Str(StringOf(value))

GetValueFromContextEmptyIsMissing(path, context) ==
    LET value == WalkResult(path, context)
    IN  IF value.t = "undefined" \/ StringOf(value) = <<>> THEN Undef
        ELSE Str(StringOf(value))

GetValueFromContext(path, context) ==
    LET value == WalkResult(path, context)
    IN  IF value.t # "undefined" THEN Str(StringOf(value)) ELSE Undef

\* TEMPLATE_PLACEHOLDER_REGEX = /\{\{(.*?)\}\}/g tried at position i: the end
\* of the match, 0 when there is none.  ".*?" is lazy and stops at a newline.
RECURSIVE CloseFrom(_, _)
CloseFrom(s, j) ==
    IF j > Len(s) THEN 0
    ELSE IF s[j] = "}}" THEN j
    ELSE IF s[j] = "\n" THEN 0
    ELSE CloseFrom(s, j + 1)

PlaceholderEnd(s, i) == IF s[i] = "{{" THEN CloseFrom(s, i + 1) ELSE 0

\* a replacer that drops what it cannot resolve
ReplacerDropsUnresolved(match, placeholder, context) ==
    LET trimmedPlaceholder == Trim(placeholder)
        value == GetValueFromContext(trimmedPlaceholder, context)
    IN  IF value.t # "undefined" THEN value.s ELSE <<>>

\* the replacer callback of processTemplate
Replacer(match, placeholder, context) ==
    LET trimmedPlaceholder == Trim(placeholder)
        value == GetValueFromContext(trimmedPlaceholder, context)
    IN  IF value.t # "undefined" THEN value.s ELSE match

\* templateContent.replace(TEMPLATE_PLACEHOLDER_REGEX, replacer), from position i
RECURSIVE ReplaceAllFrom(_, _, _)
ReplaceAllFrom(s, i, context) ==
    IF i > Len(s) THEN <<>>
    ELSE LET j == PlaceholderEnd(s, i)
         IN  IF j = 0 THEN <<s[i]>> \o ReplaceAllFrom(s, i + 1, context)
             ELSE Replacer(Slice(s, i, j), Slice(s, i + 1, j - 1), context)
                      \o ReplaceAllFrom(s, j + 1, context)

ProcessTemplate(templateContent, context) == ReplaceAllFrom(templateContent, 1, context)

\* entry names copied as they are
ProcessFileNameVerbatim(fileName, context) == fileName

\* fileName.replace(TEMPLATE_PLACEHOLDER_REGEX, replacer) of processFileName
ProcessFileName(fileName, context) == ReplaceAllFrom(fileName, 1, context)

(***************************************************************************)
(* TemplateEngine.copyTemplateDirectory and generateFile.  A path is the   *)
(* sequence of the names below the target directory, <<>> being the target *)
(* directory itself; fs holds the directories and files below and at the   *)
(* target and whether the call has thrown.                                 *)
(***************************************************************************)
\* path.join(targetDir, name): an empty segment and the segment "." add
\* nothing
Join(dir, name) == IF name \in {<<>>, <<".">>} THEN dir ELSE Append(dir, name)

EmptyFs == [dirs |-> {}, files |-> {}, raised |-> FALSE]

\* fs.ensureDir(dir): fails when the path is a file
EnsureDir(fs, dir) ==
    IF \E f \in fs.files : f.path = dir THEN [fs EXCEPT !.raised = TRUE]
    ELSE [fs EXCEPT !.dirs = @ \cup {dir}]

\* a write that leaves an existing file as it is
WriteFileIfAbsent(fs, path, content) ==
    IF path \in fs.dirs THEN [fs EXCEPT !.raised = TRUE]
    ELSE IF \E f \in fs.files : f.path = path THEN fs
    ELSE [fs EXCEPT !.files = @ \cup {[path |-> path, content |-> content]}]

\* fs.writeFile(path, content): EISDIR when the path is a directory
WriteFile(fs, path, content) ==
    IF path \in fs.dirs THEN [fs EXCEPT !.raised = TRUE]
    ELSE [fs EXCEPT !.files = {f \in @ : f.path # path}
                                  \cup {[path |-> path, content |-> content]}]

\* a copy that makes the target directory before it looks at the source
RECURSIVE CopyTemplateDirectoryEnsureFirst(_, _, _, _)
CopyTemplateDirectoryEnsureFirst(sourceDir, targetDir, context, fs) ==
    IF ~sourceDir.exists THEN [EnsureDir(fs, targetDir) EXCEPT !.raised = TRUE]
    ELSE LET entry == sourceDir.entry
             targetPath == Join(targetDir, ProcessFileName(entry.name, context))
             made == EnsureDir(fs, targetDir)
         IN  IF made.raised THEN made
             ELSE IF entry.isDirectory
             THEN CopyTemplateDirectoryEnsureFirst(entry.dir, targetPath, context, made)
             ELSE WriteFile(made, targetPath, ProcessTemplate(entry.content, context))

\* copyTemplateDirectory on a source directory that holds one entry
RECURSIVE CopyTemplateDirectory(_, _, _, _)
CopyTemplateDirectory(sourceDir, targetDir, context, fs) ==
    IF ~sourceDir.exists THEN [fs EXCEPT !.raised = TRUE]
    ELSE LET entry == sourceDir.entry
             targetPath == Join(targetDir, ProcessFileName(entry.name, context))
             made == EnsureDir(fs, targetDir)
         IN  IF made.raised THEN made
             ELSE IF entry.isDirectory
             THEN CopyTemplateDirectory(entry.dir, targetPath, context, made)
             ELSE WriteFile(made, targetPath, ProcessTemplate(entry.content, context))

\* generateFile(sourcePath, targetPath, context), targetPath being targetDir/name
GenerateFile(source, name, context, fs) ==
    IF ~source.exists THEN [fs EXCEPT !.raised = TRUE]
    ELSE WriteFile(EnsureDir(fs, <<>>), <<name>>, ProcessTemplate(source.content, context))

NoCopy == [op |-> "none", source |-> [exists |-> FALSE], name |-> <<>>,
           before |-> EmptyFs, fs |-> EmptyFs]

(***************************************************************************)
(* The inputs of the template engine.                                      *)
(***************************************************************************)
TplLexemes == {"{{", "}}", "a", ".", " ", "\n"}

Leaves == {Str(<<"v">>), Str(<<>>), Str(<<"{{", "a", "}}">>), Num(7), Null}

Inner == Leaves \cup {Obj(<<>>)} \cup {Obj([k \in {"a"} |-> v]) : v \in Leaves}

Contexts == {Obj(<<>>)} \cup {Obj([k \in {"a"} |-> v]) : v \in Inner}

TemplateInit ==
    /\ tpl \in SeqsUpTo(TplLexemes, MaxTplLen)
    /\ ctx \in Contexts
    /\ out = <<>>
    /\ rendered = FALSE
    /\ copy = NoCopy
    /\ fam = "none" /\ present = FALSE /\ file = <<>> /\ prev = <<>>
    /\ runs = 0 /\ res = NoResult
    /\ InitIdle

Render ==
    /\ ~rendered
    /\ out' = ProcessTemplate(tpl, ctx)
    /\ rendered' = TRUE
    /\ UNCHANGED <<tpl, ctx, copy>>
    /\ UNCHANGED pvars
    /\ UNCHANGED ivars

TemplateNext == Render

SpecTemplate == TemplateInit /\ [][TemplateNext]_vars

(***************************************************************************)
(* Calls of copyTemplateDirectory and generateFile: the template directory *)
(* holds one entry, a file or a directory with one file in it; the         *)
(* directory may be missing; the target directory may exist already.       *)
(***************************************************************************)
\* the names fs.readdir can return
EntryNames == SeqsUpTo(TplLexemes, MaxNameLen) \ {<<>>, <<".">>, <<".", ".">>}

Sources(name, content) ==
    LET template == [name |-> name, isDirectory |-> FALSE, content |-> content]
    IN  {[exists |-> FALSE],
         [exists |-> TRUE, entry |-> template],
         [exists |-> TRUE,
          entry |-> [name |-> name, isDirectory |-> TRUE,
                     dir |-> [exists |-> TRUE, entry |-> template]]]}

CopyInit ==
    /\ tpl \in {<<"{{", "a", "}}">>, <<"a">>}
    /\ ctx \in Contexts
    /\ \E name \in EntryNames, before \in {EmptyFs, EnsureDir(EmptyFs, <<>>)} :
          \E source \in Sources(name, tpl) :
              copy = [op |-> "none", source |-> source, name |-> name,
                      before |-> before, fs |-> before]
    /\ out = <<>>
    /\ rendered = FALSE
    /\ fam = "none" /\ present = FALSE /\ file = <<>> /\ prev = <<>>
    /\ runs = 0 /\ res = NoResult
    /\ InitIdle

Called(op, before, fs) ==
    /\ copy.op = "none"
    /\ copy' = [copy EXCEPT !.op = op, !.before = before, !.fs = fs]
    /\ UNCHANGED <<tpl, ctx, out, rendered>>
    /\ UNCHANGED pvars
    /\ UNCHANGED ivars

\* copyTemplateDirectory called on a target as it is (updatePagesRouterEntryPoint)
CallCopyTemplateDirectory ==
    Called("copyTemplateDirectory", copy.before,
           CopyTemplateDirectory(copy.source, <<>>, ctx, copy.before))

\* generateWalletAdapter: fs.ensureDir(targetDir), then copyTemplateDirectory
CallGenerateWalletAdapter ==
    LET ensured == EnsureDir(copy.before, <<>>)
    IN  Called("generateWalletAdapter", ensured,
               CopyTemplateDirectory(copy.source, <<>>, ctx, ensured))

CallGenerateFile ==
    Called("generateFile", copy.before,
           GenerateFile([exists |-> copy.source.exists, content |-> tpl],
                        copy.name, ctx, copy.before))

CopyNext ==
    \/ CallCopyTemplateDirectory
    \/ CallGenerateWalletAdapter
    \/ CallGenerateFile

SpecCopy == CopyInit /\ [][CopyNext]_vars

(***************************************************************************)
(* The same calls on a target that holds files and directories already:    *)
(* r being the rendered name of the entry, a file at r or at r/r, a         *)
(* directory at r or at r/r, and a file that no entry of the source renders *)
(* to.                                                                     *)
(***************************************************************************)
OLD == "old"
UNRELATED == "other"

Targets(r) ==
    LET dir == EnsureDir(EmptyFs, <<>>)
        other == [path |-> <<<<UNRELATED>>>>, content |-> <<OLD>>]
        flat == [path |-> <<r>>, content |-> <<OLD>>]
        nested == [path |-> <<r, r>>, content |-> <<OLD>>]
    IN  {EmptyFs, [dir EXCEPT !.files = {other}]}
            \cup (IF r \in {<<>>, <<".">>} THEN {}
                  ELSE {[dir EXCEPT !.files = {flat, other}],
                        [dir EXCEPT !.dirs = @ \cup {<<r>>}, !.files = {nested, other}],
                        [dir EXCEPT !.dirs = @ \cup {<<r>>, <<r, r>>}]})

TreeInit ==
    /\ tpl \in {<<"{{", "a", "}}">>, <<"a">>}
    /\ ctx \in Contexts
    /\ \E name \in EntryNames :
          \E source \in Sources(name, tpl), before \in Targets(ProcessFileName(name, ctx)) :
              copy = [op |-> "none", source |-> source, name |-> name,
                      before |-> before, fs |-> before]
    /\ out = <<>>
    /\ rendered = FALSE
    /\ fam = "none" /\ present = FALSE /\ file = <<>> /\ prev = <<>>
    /\ runs = 0 /\ res = NoResult
    /\ InitIdle

SpecTree == TreeInit /\ [][CopyNext]_vars

(***************************************************************************)
(* Properties of the template engine.                                      *)
(***************************************************************************)
HasOpen(s) == \E k \in 1..Len(s) : s[k] = "{{"

\* s[i..j] is the first placeholder of s: "{{", an expression with no
\* delimiter and no line break in it, "}}"
FirstPlaceholder(s, i, j) ==
    /\ i < j
    /\ s[i] = "{{"
    /\ s[j] = "}}"
    /\ \A k \in 1..(i - 1) : s[k] # "{{"
    /\ \A k \in (i + 1)..(j - 1) : s[k] \notin {"{{", "}}", "\n"}

\* the segments of the dotted path written in the placeholder s[i..j]
PathOf(s, i, j) == SplitDots(Trim(Slice(s, i + 1, j - 1)), <<>>)

\* sequential property descent along the segments
RECURSIVE Descend(_, _)
Descend(value, parts) ==
    IF parts = <<>> THEN value
    ELSE IF value.t # "object" THEN Undef
    ELSE Descend(Prop(value, Head(parts)), Tail(parts))

\* some segment of the path resolves to undefined: a missing key
RECURSIVE MeetsUndefined(_, _)
MeetsUndefined(value, parts) ==
    /\ parts # <<>>
    /\ value.t # "null"
    /\ \/ Prop(value, Head(parts)).t = "undefined"
       \/ MeetsUndefined(Prop(value, Head(parts)), Tail(parts))

\* some segment of the path resolves to null
RECURSIVE MeetsNull(_, _)
MeetsNull(value, parts) ==
    /\ parts # <<>>
    /\ \/ Prop(value, Head(parts)).t = "null"
       \/ MeetsNull(Prop(value, Head(parts)), Tail(parts))

\* a segment before the last resolves to null
MeetsNullMidWalk(value, parts) ==
    Len(parts) > 1 /\ MeetsNull(value, Slice(parts, 1, Len(parts) - 1))

\* the output starts with the template up to the end of the placeholder at j
KeptUpTo(j) == Len(out) >= j /\ Slice(out, 1, j) = Slice(tpl, 1, j)

\* C5: a placeholder whose path reaches a missing key at some segment is left
\* in the output exactly as written, delimiters and inner white space included.
C5_UnresolvedPreserved ==
    rendered =>
        \A i, j \in 1..Len(tpl) :
            (FirstPlaceholder(tpl, i, j) /\ MeetsUndefined(ctx, PathOf(tpl, i, j)))
                => KeptUpTo(j)

\* C5 witness: a rendered two-segment path into an empty object, as in
\* "{{a.b}}" with {a: {}}
C5_Witness ==
    /\ rendered
    /\ tpl = <<"{{", "a", ".", "a", "}}">>
    /\ ctx = Obj([k \in {"a"} |-> Obj(<<>>)])
    /\ out = tpl

\* every placeholder of s is well formed and resolves to a defined value
RECURSIVE AllResolve(_, _)
AllResolve(s, context) ==
    IF ~HasOpen(s) THEN TRUE
    ELSE \E i, j \in 1..Len(s) :
            /\ FirstPlaceholder(s, i, j)
            /\ Descend(context, PathOf(s, i, j)).t # "undefined"
            /\ AllResolve(Slice(s, j + 1, Len(s)), context)

\* the text outside the placeholders, with the string form of the value of
\* each path at the place of its placeholder
RECURSIVE Substituted(_, _)
Substituted(s, context) ==
    IF ~HasOpen(s) THEN s
    ELSE LET i == CHOOSE k \in 1..Len(s) : \E j \in 1..Len(s) : FirstPlaceholder(s, k, j)
             j == CHOOSE k \in 1..Len(s) : FirstPlaceholder(s, i, k)
         IN  Slice(s, 1, i - 1) \o StringOf(Descend(context, PathOf(s, i, j)))
                 \o Substituted(Slice(s, j + 1, Len(s)), context)

\* C6: when every placeholder resolves, the output is the template with each
\* placeholder replaced, once, by the string form of the value its trimmed
\* dotted path reaches, and every other character unchanged.
C6_SubstitutionRoundTrip ==
    (rendered /\ AllResolve(tpl, ctx)) => out = Substituted(tpl, ctx)

\* C6 witness: a padded placeholder resolved to a value that itself reads as
\* a placeholder, which the single pass leaves alone
C6_Witness ==
    /\ rendered
    /\ tpl = <<"{{", " ", "a", "}}">>
    /\ ctx = Obj([k \in {"a"} |-> Str(<<"{{", "a", "}}">>)])
    /\ out = <<"{{", "a", "}}">>

\* C7 as stated: a placeholder with a segment, the last included, that
\* resolves to null or undefined is left unchanged.
C7_NullAnywherePreserved ==
    rendered =>
        \A i, j \in 1..Len(tpl) :
            (/\ FirstPlaceholder(tpl, i, j)
             /\ \/ MeetsNull(ctx, PathOf(tpl, i, j))
                \/ MeetsUndefined(ctx, PathOf(tpl, i, j)))
                => KeptUpTo(j)

\* C7 amended: a placeholder is left unchanged when a segment before the last
\* resolves to null or any segment resolves to undefined; when the last
\* segment resolves to null the placeholder is replaced by the text "null".
C7_NullMidWalkPreserved ==
    rendered =>
        \A i, j \in 1..Len(tpl) :
            FirstPlaceholder(tpl, i, j) =>
                /\ (\/ MeetsNullMidWalk(ctx, PathOf(tpl, i, j))
                    \/ MeetsUndefined(ctx, PathOf(tpl, i, j)))
                       => KeptUpTo(j)
                /\ Descend(ctx, PathOf(tpl, i, j)).t = "null"
                       => /\ Len(out) >= i
                          /\ Slice(out, 1, i) = Slice(tpl, 1, i - 1) \o <<"null">>

\* C7 witness: null met before the last segment, the placeholder kept
C7_Witness ==
    /\ rendered
    /\ tpl = <<"{{", "a", ".", "a", "}}">>
    /\ ctx = Obj([k \in {"a"} |-> Null])
    /\ out = tpl

\* the rendered path of the one file of the source directory
RenderedPath(source, name, context) ==
    LET n == ProcessTemplate(name, context)
    IN  IF source.entry.isDirectory THEN Join(Join(<<>>, n), n) ELSE Join(<<>>, n)

\* C11: copyTemplateDirectory writes the file of the source to the path made
\* of the names rendered as processTemplate renders them, with the rendered
\* content, an unresolved placeholder staying in the name; the call fails
\* only when that path is a directory.
C11_NamesRenderedAsContents ==
    (copy.op \in {"copyTemplateDirectory", "generateWalletAdapter"}
        /\ copy.source.exists) =>
        LET path == RenderedPath(copy.source, copy.name, ctx)
        IN  IF copy.fs.raised
            THEN path \in copy.fs.dirs /\ copy.fs.files = {}
            ELSE copy.fs.files = {[path |-> path,
                                   content |-> ProcessTemplate(tpl, ctx)]}

\* C11 witness: a file named "{{a}}" copied with a context without the key
\* a keeps its placeholder in the target name
C11_Witness ==
    /\ copy.op = "copyTemplateDirectory"
    /\ copy.name = <<"{{", "a", "}}">>
    /\ ctx = Obj(<<>>)
    /\ \E f \in copy.fs.files : f.path = <<copy.name>>

\* C12: a call whose source does not exist throws and leaves the directories
\* and files at and below the target as they were when it was called.
C12_MissingSourceLeavesNothing ==
    (copy.op # "none" /\ ~copy.source.exists) =>
        copy.fs = [copy.before EXCEPT !.raised = TRUE]

\* C12 witness: generateWalletAdapter with a missing template directory has
\* thrown; the target directory its own ensureDir made is empty
C12_Witness ==
    /\ copy.op = "generateWalletAdapter"
    /\ ~copy.source.exists
    /\ copy.fs.raised
    /\ copy.fs.dirs = {<<>>}
    /\ copy.fs.files = {}

(***************************************************************************)
(* Source patchers: lexemes.  The characters of a lexeme are its string.   *)
(***************************************************************************)
NL == "\n"
IMPL == "import a;\n"
CMTIMP == "// import a;\n"
RET == "return ("
CL == ")"
CMP == "<Component {...pageProps} />"
CMPD == "<Component {...pageProps} sym={'$'} />"
CMPDHead == "<Component {...pageProps} sym={'"
CMPDTail == "} />"
RDR == "ReactDOM.render(<"
CRR == "createRoot(root).render(<"
APP == "App"
END1 == " />, document.getElementById"
END2 == " />)"
BODYO == "<body>"
BODYC == "</body>"
CH == "{children}"

CAPP == "const app = createApp(App)"
APPUSE == "app.use(router)"
MNT == "app.mount('#app')"
CHAIN == "createApp(Root)"
DMNT == ".mount('#app')"
NEWVUE == "new Vue({"
PLUG == "plugins: ["
PENT == "router"
PENTC == "router,"
PE == "]"
VEND == "})"

TYPEDOC == "/** @type {import('next').NextConfig} */\n"
ME == "module.exports = {"
MEV == "module.exports = nextConfig;"
ED == "export default {"
STRICT == "\n  reactStrictMode: true,\n"
TP == "transpilePackages: ["
XPKG == "'x'"
COMMA == ","
RB == "]"
WPO == "webpack: (config) => {"
RC == "return config;"
CB == "}"
END == "};"

USERENV == "API_URL=http://localhost:3000\n"
USERPID == "NEXT_PUBLIC_PROJECT_ID=mine\n"
USERPAGE == "export default function Home() { return <main>Hello</main>; }\n"

\* Text the patchers insert.
ImportSolanaProviderNext == "import { SolanaProvider } from '../solana/wallet';\n"
ImportSolanaProviderReact == "import { SolanaProvider } from './solana/wallet';\n"
ImportClientWalletProvider == "import { ClientWalletProvider } from '../solana/wallet';\n"
CommentClientWalletProvider == "// Import Solana wallet provider\n"
OpenSolanaProviderNext == "<SolanaProvider>\n      "
CloseSolanaProviderNext == "\n    </SolanaProvider>"
OpenSolanaProviderReact == "<SolanaProvider>\n  "
CloseSolanaProviderReact == "\n</SolanaProvider>"
OpenClientWalletProvider == "\n      <ClientWalletProvider>\n        "
CloseClientWalletProvider == "\n      </ClientWalletProvider>\n    "

ImportSolanaPlugin == "import { SolanaPlugin } from './solana/wallet';\n"
AppUseSolanaPlugin == "\napp.use(SolanaPlugin)"
ChainUseSolanaPlugin == ".use(SolanaPlugin)"
PluginsSolanaPlugin == "\n  plugins: [SolanaPlugin],"
ListSolanaPlugin == ", SolanaPlugin"
FirstSolanaPlugin == "SolanaPlugin"

InjectedField == "\n  transpilePackages: ['@solana/wallet-adapter-base', '@solana/wallet-adapter-react', '@solana/wallet-adapter-react-ui', '@solana/wallet-adapter-wallets'],"
AppendPackages == " '@solana/wallet-adapter-base', '@solana/wallet-adapter-react', '@solana/wallet-adapter-react-ui', '@solana/wallet-adapter-wallets']"
OnlyPackages == "'@solana/wallet-adapter-base', '@solana/wallet-adapter-react', '@solana/wallet-adapter-react-ui', '@solana/wallet-adapter-wallets']"
FallbackBody == "\n  reactStrictMode: true,\n  transpilePackages: [\n    '@solana/wallet-adapter-base',\n    '@solana/wallet-adapter-react',\n    '@solana/wallet-adapter-react-ui',\n    '@solana/wallet-adapter-wallets'\n  ],\n"
WebpackConfig == "\n  webpack: (config) => {\n    config.resolve.fallback = {\n      ...config.resolve.fallback,\n      fs: false,\n      os: false,\n      path: false,\n      crypto: false,\n    };\n    config.externals.push('pino-pretty', 'lokijs', 'encoding');\n    return config;\n  },"
CloseAfterWebpack == "\n};"
CloseBraceAfterWebpack == "\n}"
ExternalsPush == "config.externals.push('pino-pretty', 'lokijs', 'encoding');\n    "

EnvHeader == "# Solana Configuration\n"
EnvServerSide == "\n# For server-side operations (optional)\nSOLANA_PRIVATE_KEY=YOUR_PRIVATE_KEY_HERE\n\n# Note: Never commit private keys to source control\n# Use this file as a template and create a .env.local file with your actual keys\n"
EnvAppKit == "\n# Reown AppKit Configuration\nNEXT_PUBLIC_PROJECT_ID=b56e18d47c72ab683b10814fe9495694\n"
AppKitEnv == "NEXT_PUBLIC_PROJECT_ID=b56e18d47c72ab683b10814fe9495694"
\* the page of the AppKit demo, its JSX left out
AppKitPageContent == "\nimport { ConnectButton } from \"@/components/ConnectButton\";\nimport { ActionButtonList } from \"@/components/ActionButtonList\";\nimport { InfoList } from \"@/components/InfoList\";\n\nexport default function Home() {\n  return (\n  );\n}\n"

\* \s: the lexemes made of white space only
Space == {NL}

\* the lexemes whose last character is a line terminator
EndsLine == {NL, IMPL, CMTIMP, ImportSolanaProviderNext, ImportSolanaProviderReact,
             ImportClientWalletProvider, CommentClientWalletProvider,
             ImportSolanaPlugin,
             TYPEDOC, STRICT, FallbackBody}

\* the lexemes that are a whole line "import ...;" with its line terminator
ImportLines == {IMPL, ImportSolanaProviderNext, ImportSolanaProviderReact,
                ImportClientWalletProvider, ImportSolanaPlugin}

\* the texts a lexeme ends with: itself, and for a comment line that quotes an
\* import, the import line it quotes
EndsWithText(lexeme) == {lexeme} \cup (IF lexeme = CMTIMP THEN {IMPL} ELSE {})

\* a lexeme that ends a line, without its line terminator
Chomp(lexeme) ==
    CASE lexeme = IMPL -> "import a;"
      [] lexeme = CMTIMP -> "// import a;"
      [] lexeme = ImportSolanaProviderReact
            -> "import { SolanaProvider } from './solana/wallet';"
      [] lexeme = ImportSolanaProviderNext
            -> "import { SolanaProvider } from '../solana/wallet';"
      [] lexeme = ImportClientWalletProvider
            -> "import { ClientWalletProvider } from '../solana/wallet';"
      [] lexeme = CommentClientWalletProvider -> "// Import Solana wallet provider"
      [] lexeme = ImportSolanaPlugin
            -> "import { SolanaPlugin } from './solana/wallet';"
      [] OTHER -> lexeme

\* content.includes(word), lexeme by lexeme
WordsIn(lexeme) ==
    CASE lexeme \in {ImportSolanaProviderNext, ImportSolanaProviderReact}
            -> {"SolanaProvider", "solana/wallet"}
      [] lexeme \in {OpenSolanaProviderNext, CloseSolanaProviderNext,
                     OpenSolanaProviderReact, CloseSolanaProviderReact}
            -> {"SolanaProvider"}
      [] lexeme = ImportClientWalletProvider
            -> {"ClientWalletProvider", "solana/wallet"}
      [] lexeme \in {OpenClientWalletProvider, CloseClientWalletProvider}
            -> {"ClientWalletProvider"}
      [] lexeme = CH -> {"{children}"}
      [] lexeme = ImportSolanaPlugin -> {"SolanaPlugin", "solana/wallet"}
      [] lexeme = AppUseSolanaPlugin -> {"SolanaPlugin", "app.use("}
      [] lexeme \in {ChainUseSolanaPlugin, ListSolanaPlugin, FirstSolanaPlugin}
            -> {"SolanaPlugin"}
      [] lexeme = PluginsSolanaPlugin -> {"SolanaPlugin", "plugins"}
      [] lexeme \in {CAPP, CHAIN} -> {"createApp("}
      [] lexeme = APPUSE -> {"app.use("}
      [] lexeme = MNT -> {"app.mount", ".mount"}
      [] lexeme = DMNT -> {".mount"}
      [] lexeme = NEWVUE -> {"new Vue("}
      [] lexeme = PLUG -> {"plugins"}
      [] lexeme = TP -> {"transpilePackages"}
      [] lexeme \in {InjectedField, FallbackBody}
            -> {"transpilePackages", "@solana/wallet-adapter"}
      [] lexeme \in {AppendPackages, OnlyPackages} -> {"@solana/wallet-adapter"}
      [] lexeme \in {ME, MEV} -> {"module.exports"}
      [] lexeme = ED -> {"export default"}
      [] lexeme = WPO -> {"webpack"}
      [] lexeme = WebpackConfig -> {"webpack", "externals"}
      [] lexeme = ExternalsPush -> {"externals"}
      [] lexeme \in {USERPID, EnvAppKit, AppKitEnv} -> {"NEXT_PUBLIC_PROJECT_ID="}
      [] OTHER -> {}

Includes(content, word) == \E i \in 1..Len(content) : word \in WordsIn(content[i])

Max(S) == CHOOSE x \in S : \A y \in S : y <= x
Min(S) == CHOOSE x \in S : \A y \in S : x <= y

InsertAt(content, pos, text) ==
    Slice(content, 1, pos) \o text \o Slice(content, pos + 1, Len(content))

\* the first position from i on that holds no white space (Len + 1: none)
FirstNonSpace(c, i) ==
    LET S == {k \in i..Len(c) : c[k] \notin Space}
    IN  IF S = {} THEN Len(c) + 1 ELSE Min(S)

\* the start of the run of white space that ends right before r
SpaceRunStart(c, r) ==
    LET S == {k \in 1..r : \A m \in k..(r - 1) : c[m] \in Space}
    IN  Min(S)

(***************************************************************************)
(* String.prototype.replace(searchString, replaceString): the first        *)
(* occurrence is replaced, and "$'" in replaceString stands for the text   *)
(* that follows the occurrence.                                            *)
(***************************************************************************)
RECURSIVE GetSubstitution(_, _)
GetSubstitution(replaceValue, after) ==
    IF replaceValue = <<>> THEN <<>>
    ELSE (IF Head(replaceValue) = CMPD
          THEN <<CMPDHead>> \o after \o <<CMPDTail>>
          ELSE <<Head(replaceValue)>>)
         \o GetSubstitution(Tail(replaceValue), after)

\* content.replace(content[start..end], replaceValue)
ReplaceAt(content, start, end, replaceValue) ==
    LET after == Slice(content, end + 1, Len(content))
    IN  Slice(content, 1, start - 1) \o GetSubstitution(replaceValue, after) \o after

(***************************************************************************)
(* Import-block anchor of the React and Next.js patchers:                  *)
(* content.match(/^import.*?;(\r?\n|$)/gm), then lastIndexOf(lastImport).  *)
(***************************************************************************)
AtLineStart(c, i) == i = 1 \/ c[i - 1] \in EndsLine

ImportSection(c) == {i \in 1..Len(c) : c[i] \in ImportLines /\ AtLineStart(c, i)}

\* updatedContent.lastIndexOf(lastImport) + lastImport.length
ImportPos(c) ==
    LET lastImport == c[Max(ImportSection(c))]
    IN  Max({k \in 1..Len(c) : lastImport \in EndsWithText(c[k])})

\* the import always put at the start of the file
AddImportAtStart(c, afterLastImport, atStart) == atStart \o c

AddImport(c, afterLastImport, atStart) ==
    IF ImportSection(c) # {}
    THEN InsertAt(c, ImportPos(c), afterLastImport)
    ELSE atStart \o c

NoAnchor == [found |-> FALSE]

\* what one call of a patcher leaves: the content of the file, whether
\* fs.writeFile ran, the logger calls, updatedContent after the import step and
\* the groups of the anchor match
Outcome(content, wrote, log, imported, anchor) ==
    [content |-> content, wrote |-> wrote, log |-> log, imported |-> imported,
     anchor |-> anchor]

(***************************************************************************)
(* NextjsFramework.updatePagesRouterEntryPoint, the _app file existing.    *)
(***************************************************************************)
ComponentStart == {CMP, CMPD}
ComponentEnd == {CMP, CMPD}

\* /(\s*return\s*\(\s*)(<Component\s*{.*?}\s*\/>)(\s*\))/s
ComponentMatch(c) ==
    LET n == Len(c)
        ok(r, j) == /\ c[r] = RET
                    /\ FirstNonSpace(c, r + 1) <= j
                    /\ c[FirstNonSpace(c, r + 1)] \in ComponentStart
                    /\ c[j] \in ComponentEnd
                    /\ FirstNonSpace(c, j + 1) <= n
                    /\ c[FirstNonSpace(c, j + 1)] = CL
        R == {r \in 1..n : \E j \in 1..n : ok(r, j)}
    IN  IF R = {} THEN NoAnchor
        ELSE LET r == Min(R)
                 i == FirstNonSpace(c, r + 1)
                 j == Min({k \in 1..n : ok(r, k)})
                 e == FirstNonSpace(c, j + 1)
                 s == SpaceRunStart(c, r)
             IN  [found |-> TRUE, start |-> s, end |-> e,
                  prefix |-> Slice(c, s, i - 1), inner |-> Slice(c, i, j),
                  suffix |-> Slice(c, j + 1, e)]

UpdatePagesRouterEntryPoint(content) ==
    IF Includes(content, "SolanaProvider")
    THEN Outcome(content, FALSE, {"debug"}, content, NoAnchor)
    ELSE LET withImport == AddImport(content, <<NL, ImportSolanaProviderNext>>,
                                     <<ImportSolanaProviderNext, NL>>)
             m == ComponentMatch(withImport)
         IN  IF m.found
             THEN Outcome(ReplaceAt(withImport, m.start, m.end,
                              m.prefix \o <<OpenSolanaProviderNext>> \o m.inner
                                  \o <<CloseSolanaProviderNext>> \o m.suffix),
                          TRUE, {"success"}, withImport, m)
             ELSE Outcome(content, FALSE, {"warn"}, withImport, NoAnchor)

(***************************************************************************)
(* ReactFramework.updateEntryPoint, an entry file existing.                *)
(***************************************************************************)
\* (ReactDOM\.render\s*\(\s*<)(.*?)(\s*\/?\s*>\s*,\s*document\.getElementById)
\* and (createRoot.*?\)\.render\s*\(\s*<)(.*?)(\s*\/?\s*>\s*\)): "." stops at
\* a line terminator, the \s* that opens the third group does not.
RenderMatch(c, open, close) ==
    LET n == Len(c)
        \* the lexemes of c[r+1..e-1] that end a line
        breaks(r, e) == {m \in (r + 1)..(e - 1) : c[m] \in EndsLine}
        ok(r, e) == /\ c[r] = open
                    /\ r < e
                    /\ c[e] = close
                    /\ \A m \in (r + 1)..(e - 1) : c[m] # close
                    /\ breaks(r, e) # {} =>
                           \A q \in (Min(breaks(r, e)) + 1)..(e - 1) : c[q] \in Space
        R == {r \in 1..n : \E e \in 1..n : ok(r, e)}
    IN  IF R = {} THEN NoAnchor
        ELSE LET r == Min(R)
                 e == CHOOSE k \in 1..n : ok(r, k)
                 b == breaks(r, e)
                 m == IF b = {} THEN e ELSE Min(b)
                 \* a line terminator that ends a lexeme of other text goes to
                 \* the third group with the white space that follows it
                 split == m < e /\ c[m] \notin Space
             IN  [found |-> TRUE, start |-> r, end |-> e,
                  prefix |-> <<c[r]>>,
                  inner |-> Slice(c, r + 1, m - 1)
                                \o (IF split THEN <<Chomp(c[m])>> ELSE <<>>),
                  suffix |-> (IF split THEN <<NL>> ELSE <<>>)
                                \o Slice(c, IF split THEN m + 1 ELSE m, e)]

AppRenderMatch(c) ==
    IF RenderMatch(c, RDR, END1).found THEN RenderMatch(c, RDR, END1)
    ELSE RenderMatch(c, CRR, END2)

UpdateEntryPoint(content) ==
    IF Includes(content, "SolanaProvider")
    THEN Outcome(content, FALSE, {"debug"}, content, NoAnchor)
    ELSE LET withImport == AddImport(content, <<NL, ImportSolanaProviderReact>>,
                                     <<ImportSolanaProviderReact, NL>>)
             m == AppRenderMatch(withImport)
         IN  IF m.found
             THEN Outcome(ReplaceAt(withImport, m.start, m.end,
                              m.prefix \o <<OpenSolanaProviderReact>> \o m.inner
                                  \o <<CloseSolanaProviderReact>> \o m.suffix),
                          TRUE, {"success"}, withImport, m)
             ELSE Outcome(content, FALSE, {"warn"}, withImport, NoAnchor)

(***************************************************************************)
(* NextjsFramework.updateAppRouterEntryPoint of the wallet-adapter variant, *)
(* the layout file existing.                                               *)
(***************************************************************************)
StartsWithLT == {BODYO, BODYC, CMP, CMPD}
EndsWithGT == {BODYO, BODYC, CMP, CMPD}
StartsWithLTSlash == {BODYC}

\* /(\s*return\s*\(\s*<.*?>)(\s*\{children\}\s*)(<\/.*?>)/s
ChildrenMatch(c) ==
    LET n == Len(c)
        ok(r, p) == /\ c[r] = RET
                    /\ FirstNonSpace(c, r + 1) <= p
                    /\ c[FirstNonSpace(c, r + 1)] \in StartsWithLT
                    /\ c[p] \in EndsWithGT
                    /\ FirstNonSpace(c, p + 1) <= n
                    /\ c[FirstNonSpace(c, p + 1)] = CH
                    /\ FirstNonSpace(c, FirstNonSpace(c, p + 1) + 1) <= n
                    /\ c[FirstNonSpace(c, FirstNonSpace(c, p + 1) + 1)]
                           \in StartsWithLTSlash
        R == {r \in 1..n : \E p \in 1..n : ok(r, p)}
    IN  IF R = {} THEN NoAnchor
        ELSE LET r == Min(R)
                 p == Min({k \in 1..n : ok(r, k)})
                 q == FirstNonSpace(c, FirstNonSpace(c, p + 1) + 1)
                 s == SpaceRunStart(c, r)
             IN  [found |-> TRUE, start |-> s, end |-> q,
                  prefix |-> Slice(c, s, p), inner |-> Slice(c, p + 1, q - 1),
                  suffix |-> <<c[q]>>]

UpdateAppRouterEntryPointWalletAdapter(content) ==
    IF Includes(content, "ClientWalletProvider")
    THEN Outcome(content, FALSE, {"debug"}, content, NoAnchor)
    ELSE LET withImport ==
                 AddImport(content,
                     <<NL, CommentClientWalletProvider, ImportClientWalletProvider>>,
                     <<CommentClientWalletProvider, ImportClientWalletProvider, NL>>)
             m == ChildrenMatch(withImport)
         IN  IF m.found
             THEN Outcome(ReplaceAt(withImport, m.start, m.end,
                              m.prefix \o <<OpenClientWalletProvider>> \o m.inner
                                  \o <<CloseClientWalletProvider>> \o m.suffix),
                          TRUE, {"success"}, withImport, m)
             ELSE Outcome(content, FALSE, {"warn"}, withImport, NoAnchor)

(***************************************************************************)
(* NextjsFramework.updateAppRouterEntryPoint, the layout file existing.     *)
(* init builds the context without a "config" key, so reading               *)
(* context.config.useAppKit right after the file is read throws a          *)
(* TypeError; the catch clause of the method logs it, and nothing is        *)
(* written.                                                                *)
(***************************************************************************)
UpdateAppRouterEntryPoint(content) ==
    Outcome(content, FALSE, {"error"}, content, NoAnchor)

(***************************************************************************)
(* VueFramework.updateMainFile, a main file existing.                      *)
(***************************************************************************)
\* content.replace(needle, replacement), the needle being text of the content:
\* the first occurrence is replaced.  An occurrence may start at the line
\* terminator that ends a lexeme; the empty needle occurs at the start.
ReplaceFirst(c, needle, replacement) ==
    LET n == Len(c)
        k == Len(needle)
        exact(i) == i + k - 1 <= n /\ Slice(c, i, i + k - 1) = needle
        inside(i) == /\ needle[1] = NL
                     /\ c[i] \in EndsLine \ Space
                     /\ i + k - 1 <= n
                     /\ Slice(c, i + 1, i + k - 1) = Tail(needle)
        At == {i \in 1..n : exact(i) \/ inside(i)}
    IN  IF k = 0 THEN replacement \o c
        ELSE IF At = {} THEN c
        ELSE LET i == Min(At)
             IN  Slice(c, 1, i - 1)
                     \o (IF exact(i) THEN <<>> ELSE <<Chomp(c[i])>>)
                     \o replacement \o Slice(c, i + k, n)

Registered(content) == [content |-> content, warn |-> FALSE]
NotRegistered(content) == [content |-> content, warn |-> TRUE]

\* the branch taken when updatedContent.includes("createApp(")
RegisterVue3(c) ==
    LET n == Len(c)
        \* /(const\s+app\s*=\s*createApp\s*\(.*?\))(.*?)(app\.mount)/s
        A == {a \in 1..n : c[a] = CAPP /\ \E m \in (a + 1)..n : c[m] = MNT}
        \* /(createApp\s*\(.*?\).*?)\.mount/s
        B == {a \in 1..n : /\ c[a] \in {CAPP, CHAIN}
                           /\ \E d \in (a + 1)..n : c[d] \in {MNT, DMNT}}
    IN  IF A # {}
        THEN LET a == Min(A)
                 m == Min({k \in (a + 1)..n : c[k] = MNT})
                 middlewareSection == Slice(c, a + 1, m - 1)
                 uses == {u \in (a + 1)..(m - 1) : c[u] = APPUSE}
             IN  IF uses # {}
                 THEN Registered(ReplaceFirst(c, middlewareSection,
                          Slice(c, a + 1, Max(uses)) \o <<AppUseSolanaPlugin>>
                              \o Slice(c, Max(uses) + 1, m - 1)))
                 ELSE Registered(ReplaceFirst(c, <<CAPP>>,
                                              <<CAPP, AppUseSolanaPlugin>>))
        ELSE IF B # {}
        THEN LET a == Min(B)
                 d == Min({k \in (a + 1)..n : c[k] \in {MNT, DMNT}})
             IN  Registered(Slice(c, 1, d - 1)
                     \o (IF c[d] = MNT THEN <<"app">> ELSE <<>>)
                     \o <<ChainUseSolanaPlugin, DMNT>> \o Slice(c, d + 1, n))
        ELSE NotRegistered(c)

\* the branch taken when updatedContent.includes("new Vue(")
RegisterVue2(c) ==
    LET n == Len(c)
        \* /(new\s+Vue\s*\(\s*\{)(.*?)(\}\s*\))/s
        V == {v \in 1..n : c[v] = NEWVUE /\ \E e \in (v + 1)..n : c[e] = VEND}
    IN  IF V = {} THEN NotRegistered(c)
        ELSE LET v == Min(V)
                 e == Min({k \in (v + 1)..n : c[k] = VEND})
                 vueOptions == Slice(c, v + 1, e - 1)
                 \* /(plugins\s*:\s*\[)(.*?)(\])/s on vueOptions
                 P == {p \in (v + 1)..(e - 1) :
                          c[p] = PLUG /\ \E q \in (p + 1)..(e - 1) : c[q] = PE}
             IN  IF ~Includes(vueOptions, "plugins")
                 THEN Registered(ReplaceFirst(c, vueOptions,
                                     vueOptions \o <<PluginsSolanaPlugin>>))
                 ELSE IF P = {} THEN NotRegistered(c)
                 ELSE LET p == Min(P)
                          q == Min({k \in (p + 1)..(e - 1) : c[k] = PE})
                          pluginsList == Slice(c, p + 1, q - 1)
                      IN  Registered(ReplaceFirst(c, Slice(c, p, q),
                              <<PLUG>>
                              \o (IF pluginsList # <<>>
                                  THEN pluginsList \o <<ListSolanaPlugin>>
                                  ELSE <<FirstSolanaPlugin>>)
                              \o <<PE>>))

\* the import and the registration, and the write that follows them
PatchMainFile(content) ==
    LET withImport == AddImport(content, <<NL, ImportSolanaPlugin>>,
                                <<ImportSolanaPlugin, NL>>)
        r == IF Includes(withImport, "createApp(") THEN RegisterVue3(withImport)
             ELSE IF Includes(withImport, "new Vue(") THEN RegisterVue2(withImport)
             ELSE NotRegistered(withImport)
    IN  \* the warnings do not return: the file is written in every case
        Outcome(r.content, TRUE,
                {"success"} \cup (IF r.warn THEN {"warn"} ELSE {}),
                withImport, [found |-> ~r.warn])

\* the patcher without its check for the plugin
UpdateMainFileUnguarded(content) == PatchMainFile(content)

UpdateMainFile(content) ==
    IF Includes(content, "SolanaPlugin") \/ Includes(content, "solana/wallet")
    THEN Outcome(content, FALSE, {"debug"}, content, NoAnchor)
    ELSE PatchMainFile(content)

(***************************************************************************)
(* NextjsFramework.updateNextConfig.                                       *)
(***************************************************************************)
\* the file written when no next.config.* exists
DefaultNextConfig == <<TYPEDOC, ME, STRICT, END, NL>>

\* the lexemes that hold a "}"
HasCloseBrace == {CB, END, VEND, CMP, CMPD, ImportSolanaProviderNext,
                  ImportSolanaProviderReact, ImportClientWalletProvider,
                  ImportSolanaPlugin, TYPEDOC, CloseAfterWebpack,
                  CloseBraceAfterWebpack, WebpackConfig, CH}

\* a merge that always writes a comma before the new entries
AddTranspilePackagesCommaAlways(content) ==
    LET n == Len(content)
        T == {t \in 1..n : content[t] = TP /\ \E b \in (t + 1)..n : content[b] = RB}
    IN  IF T = {} THEN content
        ELSE LET t == Min(T)
                 b == Min({k \in (t + 1)..n : content[k] = RB})
             IN  Slice(content, 1, t) \o Trim(Slice(content, t + 1, b - 1))
                     \o <<COMMA, AppendPackages>> \o Slice(content, b + 1, n)

\* the step "Add transpile modules"
AddTranspilePackages(content) ==
    LET n == Len(content)
        \* /transpilePackages\s*:\s*\[(.*?)\]/s
        T == {t \in 1..n : content[t] = TP /\ \E b \in (t + 1)..n : content[b] = RB}
        firstOf(l) == Min({k \in 1..n : content[k] = l})
    IN  IF Includes(content, "transpilePackages")
        THEN IF T = {} THEN content
             ELSE LET t == Min(T)
                      b == Min({k \in (t + 1)..n : content[k] = RB})
                      packagesList == Trim(Slice(content, t + 1, b - 1))
                  IN  Slice(content, 1, t - 1)
                          \o (IF packagesList # <<>>
                              THEN <<TP>> \o packagesList
                                   \o (IF packagesList[Len(packagesList)] = COMMA
                                       THEN <<>> ELSE <<COMMA>>)
                                   \o <<AppendPackages>>
                              ELSE <<TP, OnlyPackages>>)
                          \o Slice(content, b + 1, n)
        ELSE IF Includes(content, "module.exports")
        THEN \* /module\.exports\s*=\s*{/
             IF \E k \in 1..n : content[k] = ME
             THEN InsertAt(content, firstOf(ME), <<InjectedField>>)
             ELSE content
        ELSE IF Includes(content, "export default")
        THEN \* /export default\s*{/
             IF \E k \in 1..n : content[k] = ED
             THEN InsertAt(content, firstOf(ED), <<InjectedField>>)
             ELSE content
        ELSE <<TYPEDOC, ME, FallbackBody, END, NL>>

\* the step "Add webpack configuration for polyfills if needed"
AddWebpackConfig(updatedContent) ==
    LET n == Len(updatedContent)
        \* the last lexeme that is not white space: /};\s*$/ and /}\s*$/
        e == Max({0} \cup {k \in 1..n : updatedContent[k] \notin Space})
        \* /(webpack\s*:\s*\(\s*config\s*\)\s*=>\s*{[^}]*)(return config;)/
        ok(w, r) == /\ updatedContent[w] = WPO
                    /\ w < r
                    /\ updatedContent[r] = RC
                    /\ \A k \in (w + 1)..(r - 1) : updatedContent[k] \notin HasCloseBrace
        W == {w \in 1..n : \E r \in 1..n : ok(w, r)}
    IN  IF ~Includes(updatedContent, "webpack")
        THEN IF e > 0 /\ updatedContent[e] = END
             THEN Slice(updatedContent, 1, e - 1)
                      \o <<WebpackConfig, CloseAfterWebpack>>
                      \o Slice(updatedContent, e + 1, n)
             ELSE IF e > 0 /\ updatedContent[e] = CB
             THEN Slice(updatedContent, 1, e - 1)
                      \o <<WebpackConfig, CloseBraceAfterWebpack>>
                      \o Slice(updatedContent, e + 1, n)
             ELSE updatedContent
        ELSE IF ~Includes(updatedContent, "externals")
        THEN IF W = {} THEN updatedContent
             ELSE LET w == Min(W)
                      r == Max({k \in 1..n : ok(w, k)})
                  IN  InsertAt(updatedContent, r - 1, <<ExternalsPush>>)
        ELSE updatedContent

UpdateNextConfig(content) ==
    IF Includes(content, "@solana/wallet-adapter")
    THEN Outcome(content, FALSE, {"debug"}, content, NoAnchor)
    ELSE LET withPackages == AddTranspilePackages(content)
         IN  Outcome(AddWebpackConfig(withPackages), TRUE, {"success"},
                     withPackages, NoAnchor)

(***************************************************************************)
(* The patchers run on the files of a project.  fam names the patcher and  *)
(* the kind of file, present tells whether the file exists, file holds its *)
(* content, prev the content the last call read, runs counts the calls and *)
(* res holds what the last call did.                                       *)
(***************************************************************************)
PagesLexemes == {IMPL, CMTIMP, RET, CMP, CMPD, CL}
ReactLexemes == {IMPL, RDR, CRR, APP, END1, END2}
LayoutLexemes == {NL, IMPL, RET, BODYO, CH, BODYC}
AppKitLayoutLexemes == {IMPL, RET, BODYO, CH, BODYC, OpenClientWalletProvider}
Vue3Lexemes == {NL, CAPP, APPUSE, MNT, CHAIN, DMNT}
Vue2Lexemes == {IMPL, NEWVUE, PLUG, PENT, PENTC, PE, VEND}
ArrayConfigLexemes == {NL, TP, XPKG, COMMA, RB, END}
ObjectConfigLexemes == {ME, MEV, ED, WPO, RC, CB}

Lexemes(f) ==
    CASE f = "pages" -> PagesLexemes
      [] f = "react" -> ReactLexemes
      [] f = "layoutWalletAdapter" -> LayoutLexemes
      [] f = "layout" -> AppKitLayoutLexemes
      [] f = "vue3" -> Vue3Lexemes
      [] f = "vue2" -> Vue2Lexemes
      [] f = "configArray" -> ArrayConfigLexemes
      [] f = "configObject" -> ObjectConfigLexemes

Families == {"pages", "react", "layoutWalletAdapter", "layout", "vue3", "vue2",
             "configArray", "configObject"}

Files(f) == SeqsUpTo(Lexemes(f), MaxFileLen)

\* the file the patcher looks for does not exist
Missing(log) == Outcome(<<>>, FALSE, log, <<>>, NoAnchor)

PatchInit ==
    /\ fam \in Families
    /\ present \in BOOLEAN
    /\ file \in IF present THEN Files(fam) ELSE {<<>>}
    /\ prev = <<>>
    /\ runs = 0
    /\ res = NoResult
    /\ tpl = <<>> /\ ctx = Obj(<<>>) /\ out = <<>> /\ rendered = FALSE
    /\ copy = NoCopy
    /\ InitIdle

Ran(o) ==
    /\ runs < MaxRuns
    /\ prev' = file
    /\ file' = o.content
    /\ res' = [wrote |-> o.wrote, log |-> o.log, imported |-> o.imported,
               anchor |-> o.anchor]
    /\ runs' = runs + 1
    /\ UNCHANGED fam
    /\ UNCHANGED tvars
    /\ UNCHANGED ivars

RunUpdatePagesRouterEntryPoint ==
    /\ fam = "pages"
    /\ Ran(IF present THEN UpdatePagesRouterEntryPoint(file) ELSE Missing({"info", "warn"}))
    /\ UNCHANGED present

RunUpdateEntryPoint ==
    /\ fam = "react"
    /\ Ran(IF present THEN UpdateEntryPoint(file) ELSE Missing({"warn"}))
    /\ UNCHANGED present

RunUpdateAppRouterEntryPointWalletAdapter ==
    /\ fam = "layoutWalletAdapter"
    /\ Ran(IF present THEN UpdateAppRouterEntryPointWalletAdapter(file)
           ELSE Missing({"warn"}))
    /\ UNCHANGED present

RunUpdateAppRouterEntryPoint ==
    /\ fam = "layout"
    /\ Ran(IF present THEN UpdateAppRouterEntryPoint(file) ELSE Missing({"warn"}))
    /\ UNCHANGED present

RunUpdateMainFile ==
    /\ fam \in {"vue3", "vue2"}
    /\ Ran(IF present THEN UpdateMainFile(file) ELSE Missing({"warn"}))
    /\ UNCHANGED present

\* a missing next.config.* is first created with the default content
RunUpdateNextConfig ==
    /\ fam \in {"configArray", "configObject"}
    /\ Ran(UpdateNextConfig(IF present THEN file ELSE DefaultNextConfig))
    /\ present' = TRUE

PatchNext ==
    \/ RunUpdateNextConfig
    \/ RunUpdateMainFile
    \/ RunUpdatePagesRouterEntryPoint
    \/ RunUpdateEntryPoint
    \/ RunUpdateAppRouterEntryPointWalletAdapter
    \/ RunUpdateAppRouterEntryPoint

SpecPatch == PatchInit /\ [][PatchNext]_vars

(***************************************************************************)
(* InitCommand.execute on a Next.js project: detection, the --framework     *)
(* option, the configuration (getConfig, options, prompt, saveConfig,      *)
(* createEnvFile), the install of the dependencies, then the steps of      *)
(* NextjsFramework.init.  init may be started again on the project it has  *)
(* worked on (init re-run, update).                                        *)
(***************************************************************************)
AppKitDependencies == {"@reown/appkit", "@reown/appkit-adapter-solana"}

\* DependencyManager.getDependencies, as the package manager records them
SolanaDependencies == {"@solana/web3.js", "@solana/wallet-adapter-react"}

\* FrameworkResolver.getSupportedFrameworks
GetSupportedFrameworks == {"react", "nextjs", "vue"}

IsFrameworkSupportedAny(framework) == TRUE

\* FrameworkResolver.isFrameworkSupported
IsFrameworkSupported(framework) == framework \in GetSupportedFrameworks

\* ConfigManager.generateEnvContent: the networkUrls table
NetworkUrls ==
    ("mainnet-beta" :> "https://api.mainnet-beta.solana.com")
    @@ ("testnet" :> "https://api.testnet.solana.com")
    @@ ("devnet" :> "https://api.devnet.solana.com")
    @@ ("localnet" :> "http://127.0.0.1:8899")

\* `${value}` of a template literal; "" stands for undefined
Interpolate(value) == IF value = "" THEN "undefined" ELSE value

\* networkUrls[config.network]: undefined for a key the table does not have
Lookup(table, key) == IF key \in DOMAIN table THEN table[key] ELSE ""

EnvNetwork(network) == "NEXT_PUBLIC_SOLANA_NETWORK=" \o Interpolate(network) \o "\n"
EnvRpcUrl(url) == "NEXT_PUBLIC_SOLANA_RPC_URL=" \o Interpolate(url) \o "\n"

\* ConfigManager.generateEnvContent
GenerateEnvContent(config) ==
    <<EnvHeader, EnvNetwork(config.network),
      EnvRpcUrl(Lookup(NetworkUrls, config.network)), EnvServerSide>>
    \o (IF config.useAppKit THEN <<EnvAppKit>> ELSE <<>>)

\* ConfigManager: DEFAULT_CONFIG; of a SolanaConfig the model keeps the
\* network, the features that are enabled, and whether useAppKit is truthy
FeatureNames == {"transactions", "tokens", "nfts"}
DEFAULT_CONFIG == [network |-> "devnet", features |-> {"transactions"}, useAppKit |-> TRUE]
NoConfig == [network |-> "", features |-> {}, useAppKit |-> FALSE]

\* the values --network is given, and .solkitrc documents carry
NetworkNames == DOMAIN NetworkUrls \cup {"foo"}

\* JSON.stringify(config, null, 2) and JSON.parse over the lexemes of a
\* .solkitrc document
JOPEN == "{\n"
JCLOSE == "\n}"
JSEP == ",\n"
JNetwork(network) == "  \"network\": \"" \o network \o "\""
JBoolean(b) == IF b THEN "true" ELSE "false"
JFeatures(features) ==
    "  \"wallets\": [\"phantom\"],\n  \"features\": {\"transactions\": "
    \o JBoolean("transactions" \in features) \o ", \"tokens\": "
    \o JBoolean("tokens" \in features) \o ", \"nfts\": "
    \o JBoolean("nfts" \in features) \o "}"
JUseAppKit == "  \"useAppKit\": true,\n  \"projectId\": \"b56e18d47c72ab683b10814fe9495694\""

Stringify(config) ==
    <<JOPEN>>
    \o (IF config.network = "" THEN <<>> ELSE <<JNetwork(config.network), JSEP>>)
    \o <<JFeatures(config.features)>>
    \o (IF config.useAppKit THEN <<JSEP, JUseAppKit>> ELSE <<>>)
    \o <<JCLOSE>>

IsMember(lexeme) ==
    \/ lexeme = JUseAppKit
    \/ \E f \in SUBSET FeatureNames : lexeme = JFeatures(f)
    \/ \E n \in NetworkNames : lexeme = JNetwork(n)

ParseJson(text) ==
    LET n == Len(text)
        inner == Slice(text, 2, n - 1)
        ok == /\ n >= 2 /\ text[1] = JOPEN /\ text[n] = JCLOSE
              /\ \/ inner = <<>>
                 \/ /\ Len(inner) % 2 = 1
                    /\ \A i \in 1..Len(inner) :
                          IF i % 2 = 1 THEN IsMember(inner[i]) ELSE inner[i] = JSEP
        networks == {i \in 1..Len(inner) : \E m \in NetworkNames : inner[i] = JNetwork(m)}
        last == inner[Max(networks)]
    IN  [ok |-> ok,
         value |-> IF ~ok THEN NoConfig
                   ELSE [network |-> IF networks = {} THEN ""
                                     ELSE CHOOSE m \in NetworkNames : last = JNetwork(m),
                         features |-> UNION {f \in SUBSET FeatureNames :
                                                 \E i \in 1..Len(inner) :
                                                     inner[i] = JFeatures(f)},
                         useAppKit |-> \E i \in 1..Len(inner) : inner[i] = JUseAppKit]]

GetConfigRethrows(rc) ==
    IF rc.exists /\ ~ParseJson(rc.content).ok
    THEN [config |-> NoConfig, threw |-> TRUE, log |-> {}]
    ELSE [config |-> IF rc.exists THEN ParseJson(rc.content).value ELSE DEFAULT_CONFIG,
          threw |-> FALSE, log |-> {}]

\* ConfigManager.getConfig
GetConfig(rc) ==
    IF rc.exists
    THEN IF ParseJson(rc.content).ok
         THEN [config |-> ParseJson(rc.content).value, threw |-> FALSE, log |-> {"debug"}]
         ELSE [config |-> DEFAULT_CONFIG, threw |-> FALSE, log |-> {"warn"}]
    ELSE [config |-> DEFAULT_CONFIG, threw |-> FALSE, log |-> {}]

NotLoaded == [config |-> NoConfig, threw |-> FALSE, log |-> {}]

\* promptForConfig: the choices of the network prompt
PromptNetworks == {"mainnet-beta", "testnet", "devnet", "localnet"}

FileNames == {"packageJson", "solkitrc", "envLocal", "envExample", "page", "nextConfig",
              "entry", "appKit", "solanaWallet", "solanaExample"}

Existing(p) == {f \in FileNames : p[f].exists}

\* what a template directory is copied to
TemplateOutput == File(<<"template">>)

\* the projects init is run on: page and layout live in the app directory of
\* an App Router project, _app in the pages directory of a Pages Router one
Projects(isAppRouter) ==
    [packageJson : {NoManifest, [exists |-> TRUE, content |-> {"next", "react"}]},
     solkitrc : {Absent, File(<<JOPEN, JNetwork("testnet")>>),
                 File(Stringify([network |-> "testnet", features |-> {"transactions"},
                                 useAppKit |-> FALSE]))},
     envLocal : {Absent, File(<<USERENV>>), File(<<USERPID>>)},
     envExample : {Absent},
     page : IF isAppRouter THEN {Absent, File(<<USERPAGE>>)} ELSE {Absent},
     nextConfig : {Absent, File(<<ME, END>>), File(<<ED, CB>>),
                   File(<<ME, TP, XPKG, RB, END>>)},
     entry : IF isAppRouter
             THEN {Absent, File(<<IMPL, RET, BODYO, CH, BODYC>>)}
             ELSE {Absent, File(<<IMPL, RET, CMP, CL>>), File(<<IMPL>>)},
     appKit : {Absent},
     solanaWallet : {Absent},
     solanaExample : {Absent}]

\* the options of the command line: --framework, --network ("" when not
\* given), --yes
Options ==
    [framework : {"", "nextjs", "svelte"}, network : {"", "testnet", "foo"},
     yes : BOOLEAN]

Started(o, r, exists, p) ==
    [framework |-> o.framework, network |-> o.network, yes |-> o.yes,
     isAppRouter |-> r, dirExists |-> exists, start |-> p, before |-> Existing(p),
     clock |-> 0, startedAt |-> 0, installedAt |-> 0,
     loaded |-> NotLoaded, config |-> NoConfig, fatal |-> "", errors |-> {},
     lockfiles |-> {}, packageManager |-> "", installs |-> {}]

ProjectInit ==
    /\ pc = "detectProject"
    /\ passes = 1
    /\ \E o \in Options, r \in BOOLEAN :
          \/ /\ proj \in Projects(r)
             /\ opts = Started(o, r, TRUE, proj)
          \/ /\ proj = NoProject
             /\ opts = Started(o, r, FALSE, proj)
    /\ writes = {}
    /\ tpl = <<>> /\ ctx = Obj(<<>>) /\ out = <<>> /\ rendered = FALSE
    /\ copy = NoCopy
    /\ fam = "none" /\ present = FALSE /\ file = <<>> /\ prev = <<>>
    /\ runs = 0 /\ res = NoResult

\* fs.writeFile on file f: guarded tells whether the step read the file and
\* tested it for its marker before writing
Write(f, guarded) ==
    [file |-> f, existed |-> f \in opts.before, guarded |-> guarded, at |-> opts.clock]

StepWith(next, o) ==
    /\ pc' = next
    /\ opts' = [o EXCEPT !.clock = @ + 1]
    /\ UNCHANGED passes
    /\ UNCHANGED tvars
    /\ UNCHANGED pvars

Step(next) == StepWith(next, opts)

\* InitCommand.execute returns success: false
Fail(reason) ==
    /\ StepWith("failed", [opts EXCEPT !.fatal = reason])
    /\ UNCHANGED <<proj, writes>>

\* the lock files of the projects update is run on; init is run on projects
\* without a lock file
LockFiles == {{}, {"yarn.lock", "pnpm-lock.yaml"}, {"pnpm-lock.yaml", "package-lock.json"}}
InitLockFiles == {{}}

\* PackageManagerUtils.detectPackageManager
DetectPackageManager(lockfiles) ==
    IF "yarn.lock" \in lockfiles THEN "yarn"
    ELSE IF "pnpm-lock.yaml" \in lockfiles THEN "pnpm"
    ELSE "npm"

\* PackageManagerUtils.getInstallCommand
GetInstallCommand(packageManager) ==
    CASE packageManager = "yarn" -> "yarn add"
      [] packageManager = "pnpm" -> "pnpm add"
      [] OTHER -> "npm install"

\* the ProjectInfo that detectProject returns
Detected(lockfiles) ==
    [opts EXCEPT !.lockfiles = lockfiles,
                 !.packageManager = DetectPackageManager(lockfiles)]

\* execAsync and execSync of an install command
Exec(o, command) == [o EXCEPT !.installs = @ \cup {command}]

\* ProjectDetector.detectProject
InitDetectProject ==
    /\ pc = "detectProject"
    /\ IF ~opts.dirExists \/ ~proj.packageJson.exists
       THEN Fail("detectProject")
       ELSE /\ \E lockfiles \in InitLockFiles :
                  StepWith("checkFramework", Detected(lockfiles))
            /\ UNCHANGED <<proj, writes>>

\* InitCommand.execute: the --framework option
InitCheckFramework ==
    /\ pc = "checkFramework"
    /\ IF opts.framework # "" /\ ~IsFrameworkSupported(opts.framework)
       THEN Fail("framework")
       ELSE Step("getConfig") /\ UNCHANGED <<proj, writes>>

\* InitCommand.execute: ConfigManager.getConfig
InitGetConfig ==
    /\ pc = "getConfig"
    /\ LET loaded == GetConfig(proj.solkitrc)
       IN  IF loaded.threw
           THEN Fail("getConfig")
           ELSE /\ StepWith("configure", [opts EXCEPT !.loaded = loaded])
                /\ UNCHANGED <<proj, writes>>

\* InitCommand.execute: the --network option, then promptForConfig without
\* --yes
InitConfigure ==
    /\ pc = "configure"
    /\ LET config == IF opts.network # ""
                     THEN [opts.loaded.config EXCEPT !.network = opts.network]
                     ELSE opts.loaded.config
       IN  IF opts.yes
           THEN StepWith("saveConfig", [opts EXCEPT !.config = config])
           ELSE \E network \in PromptNetworks :
                   StepWith("saveConfig",
                            [opts EXCEPT !.config = [network |-> network,
                                                     features |-> config.features,
                                                     useAppKit |-> FALSE]])
    /\ UNCHANGED <<proj, writes>>

\* ConfigManager.saveConfig
InitSaveConfig ==
    /\ pc = "saveConfig"
    /\ proj' = [proj EXCEPT !.solkitrc = File(Stringify(opts.config))]
    /\ writes' = writes \cup {Write("solkitrc", FALSE)}
    /\ Step("createEnvFile")

\* ConfigManager.createEnvFile
InitCreateEnvFile ==
    /\ pc = "createEnvFile"
    /\ LET envContent == GenerateEnvContent(opts.config)
           currentEnv == proj.envLocal.content
           create == ~proj.envLocal.exists
           append == /\ proj.envLocal.exists
                     /\ opts.config.useAppKit
                     /\ ~Includes(currentEnv, "NEXT_PUBLIC_PROJECT_ID=")
       IN  /\ proj' = [proj EXCEPT
                  !.envLocal = IF create THEN File(envContent)
                               ELSE IF append THEN File(currentEnv \o <<EnvAppKit>>)
                               ELSE @,
                  !.envExample = File(envContent)]
           /\ writes' = writes
                  \cup (IF create \/ append THEN {Write("envLocal", TRUE)} ELSE {})
                  \cup {Write("envExample", FALSE)}
    /\ Step("installDependencies")

\* DependencyManager.installDependencies: the package manager records the
\* dependencies in package.json, or fails
InitInstallDependencies ==
    /\ pc = "installDependencies"
    /\ LET ran == Exec(opts, GetInstallCommand(opts.packageManager))
       IN  \E installed \in BOOLEAN :
              IF installed
              THEN /\ proj' = [proj EXCEPT !.packageJson.content = @ \cup SolanaDependencies]
                   /\ UNCHANGED writes
                   /\ StepWith(IF opts.config.useAppKit THEN "generateAppKitIntegration"
                               ELSE "generateWalletAdapter",
                               [ran EXCEPT !.installedAt = opts.clock])
              ELSE /\ StepWith("failed", [ran EXCEPT !.fatal = "installDependencies"])
                   /\ UNCHANGED <<proj, writes>>

\* logger.error in a catch clause
Caught(step) == [opts EXCEPT !.errors = @ \cup {step}]

\* copyTemplateDirectory finds no source directory: it throws, the generator
\* and init let the error through, and the command returns success: false
CopyFailsUnnoticed(step, next) == StepWith(next, Caught(step))

CopyFails(step, next) == StepWith("failed", [Caught(step) EXCEPT !.fatal = step])

\* NextjsFramework.generateAppKitIntegration: the template directories
\* config, context, components and hooks, copied in this order
InitGenerateAppKitIntegration ==
    /\ pc = "generateAppKitIntegration"
    /\ \E missing \in {"none", "config", "hooks"} :
          /\ IF missing = "config"
             THEN UNCHANGED <<proj, writes>>
             ELSE /\ proj' = [proj EXCEPT !.appKit = TemplateOutput]
                  /\ writes' = writes \cup {Write("appKit", FALSE)}
          /\ IF missing = "none"
             THEN Step("updatePackageJson")
             ELSE CopyFails("generateAppKitIntegration", "updatePackageJson")

\* the command generateAppKitIntegration installs the AppKit packages with
AppKitInstallCommand == "pnpm add"

\* NextjsFramework.updatePackageJson, and the install of the AppKit packages
\* that follows it in generateAppKitIntegration, whose failure is logged only
InitUpdatePackageJson ==
    /\ pc = "updatePackageJson"
    /\ IF proj.packageJson.exists
       THEN /\ proj' = [proj EXCEPT !.packageJson.content = @ \cup AppKitDependencies]
            /\ writes' = writes \cup {Write("packageJson", FALSE)}
       ELSE UNCHANGED <<proj, writes>>
    /\ StepWith("createAppKitEnvFile", Exec(opts, AppKitInstallCommand))

\* NextjsFramework.createEnvFile
InitCreateAppKitEnvFile ==
    /\ pc = "createAppKitEnvFile"
    /\ proj' = [proj EXCEPT !.envLocal = File(<<AppKitEnv>>)]
    /\ writes' = writes \cup {Write("envLocal", FALSE)}
    /\ Step("updateHomePage")

\* NextjsFramework.updateHomePage and createHomePage; the app directory
\* exists in an App Router project only
InitUpdateHomePage ==
    /\ pc = "updateHomePage"
    /\ IF opts.isAppRouter
       THEN /\ proj' = [proj EXCEPT !.page = File(<<AppKitPageContent>>)]
            /\ writes' = writes \cup {Write("page", FALSE)}
       ELSE UNCHANGED <<proj, writes>>
    /\ Step("generateExampleComponent")

\* NextjsFramework.generateWalletAdapter
InitGenerateWalletAdapter ==
    /\ pc = "generateWalletAdapter"
    /\ \/ /\ proj' = [proj EXCEPT !.solanaWallet = TemplateOutput]
          /\ writes' = writes \cup {Write("solanaWallet", FALSE)}
          /\ Step("generateExampleComponent")
       \/ /\ UNCHANGED <<proj, writes>>
          /\ CopyFails("generateWalletAdapter", "generateExampleComponent")

\* NextjsFramework.init: the utilities of the features, then
\* generateExampleComponent
InitGenerateExampleComponent ==
    /\ pc = "generateExampleComponent"
    /\ \/ /\ proj' = [proj EXCEPT !.solanaExample = TemplateOutput]
          /\ writes' = writes \cup {Write("solanaExample", FALSE)}
          /\ Step("updateNextConfig")
       \/ /\ UNCHANGED <<proj, writes>>
          /\ CopyFails("generateExampleComponent", "updateNextConfig")

\* NextjsFramework.updateNextConfig; readFile or writeFile on the
\* configuration file may fail, and the catch clause logs and throws again:
\* init throws in its turn and InitCommand.execute returns success: false
InitUpdateNextConfig ==
    /\ pc = "updateNextConfig"
    /\ \/ LET o == UpdateNextConfig(IF proj.nextConfig.exists
                                    THEN proj.nextConfig.content
                                    ELSE DefaultNextConfig)
          IN  /\ proj' = [proj EXCEPT !.nextConfig = File(o.content)]
              /\ writes' = writes
                     \cup (IF proj.nextConfig.exists THEN {}
                           ELSE {Write("nextConfig", FALSE)})
                     \cup (IF o.wrote THEN {Write("nextConfig", TRUE)} ELSE {})
              /\ Step("updateAppEntryPoint")
       \/ /\ proj.nextConfig.exists
          /\ StepWith("failed", [Caught("updateNextConfig") EXCEPT
                                    !.fatal = "updateNextConfig"])
          /\ UNCHANGED <<proj, writes>>

\* NextjsFramework.updateAppEntryPoint
InitUpdateAppEntryPoint ==
    /\ pc = "updateAppEntryPoint"
    /\ LET o == IF ~proj.entry.exists THEN Missing({"warn"})
                ELSE IF opts.isAppRouter
                THEN UpdateAppRouterEntryPoint(proj.entry.content)
                ELSE UpdatePagesRouterEntryPoint(proj.entry.content)
       IN  \/ /\ IF o.wrote
                 THEN /\ proj' = [proj EXCEPT !.entry = File(o.content)]
                      /\ writes' = writes \cup {Write("entry", TRUE)}
                 ELSE UNCHANGED <<proj, writes>>
              /\ Step("done")
           \/ /\ proj.entry.exists
              /\ StepWith("done", Caught("updateAppEntryPoint"))
              /\ UNCHANGED <<proj, writes>>

\* init is started again on the project
InitAgain ==
    /\ pc = "done"
    /\ passes < MaxPasses
    /\ pc' = "detectProject"
    /\ passes' = passes + 1
    /\ opts' = [opts EXCEPT !.start = proj, !.before = Existing(proj),
                            !.startedAt = opts.clock, !.installedAt = 0,
                            !.loaded = NotLoaded, !.config = NoConfig,
                            !.errors = {}, !.installs = {}]
    /\ UNCHANGED <<proj, writes>>
    /\ UNCHANGED tvars
    /\ UNCHANGED pvars

Next ==
    \/ InitDetectProject
    \/ InitCheckFramework
    \/ InitGetConfig
    \/ InitConfigure
    \/ InitSaveConfig
    \/ InitCreateEnvFile
    \/ InitInstallDependencies
    \/ InitGenerateAppKitIntegration
    \/ InitUpdatePackageJson
    \/ InitCreateAppKitEnvFile
    \/ InitUpdateHomePage
    \/ InitGenerateWalletAdapter
    \/ InitGenerateExampleComponent
    \/ InitUpdateNextConfig
    \/ InitUpdateAppEntryPoint
    \/ InitAgain

Spec == ProjectInit /\ [][Next]_vars

(***************************************************************************)
(* UpdateCommand.execute on a Next.js project.  The configuration that     *)
(* getConfig returns is an object whose features are an object of their    *)
(* own: heap holds the feature objects, and a configuration refers to one   *)
(* of them by name.                                                        *)
(***************************************************************************)
\* const originalConfig = { ...config }: the copy shares the features object
Spread(config, heap) == [config |-> config, heap |-> heap]

\* the comparison of originalConfig with config
HasChanges(originalConfig, config, heap) ==
    \/ originalConfig.network # config.network
    \/ heap[originalConfig.features] # heap[config.features]

\* the options of the command line: --network, the feature flags, --yes
UpdateOptions ==
    [network : {"", "testnet"},
     flags : {{}, {"tokens"}, {"transactions"}, {"tokens", "nfts"}},
     yes : BOOLEAN]

\* the projects update is run on
UpdateProjects(isAppRouter) ==
    [packageJson : {NoManifest, [exists |-> TRUE, content |-> {"next", "react"}]},
     solkitrc : {Absent, File(<<JOPEN, JNetwork("testnet")>>),
                 File(Stringify(DEFAULT_CONFIG)),
                 File(Stringify([network |-> "testnet",
                                 features |-> {"transactions", "tokens"},
                                 useAppKit |-> FALSE]))},
     envLocal : {Absent, File(<<USERENV>>)},
     envExample : {Absent},
     page : {Absent},
     nextConfig : {Absent, File(<<ME, END>>)},
     entry : IF isAppRouter
             THEN {File(<<IMPL, RET, BODYO, CH, BODYC>>)}
             ELSE {Absent, File(<<IMPL, RET, CMP, CL>>)},
     appKit : {Absent},
     solanaWallet : {Absent, TemplateOutput},
     solanaExample : {Absent}]

NoHeap == [loaded |-> {}, copied |-> {}, answers |-> {}]

UpdateInit ==
    /\ pc = "detectProject"
    /\ passes = 1
    /\ \E o \in UpdateOptions, r \in BOOLEAN :
          /\ proj \in UpdateProjects(r)
          /\ opts = Started([framework |-> "", network |-> o.network, yes |-> o.yes],
                            r, TRUE, proj)
                    @@ [flags |-> o.flags, originalConfig |-> NoConfig,
                        current |-> NoConfig, heap |-> NoHeap]
    /\ writes = {}
    /\ tpl = <<>> /\ ctx = Obj(<<>>) /\ out = <<>> /\ rendered = FALSE
    /\ copy = NoCopy
    /\ fam = "none" /\ present = FALSE /\ file = <<>> /\ prev = <<>>
    /\ runs = 0 /\ res = NoResult

\* ProjectDetector.detectProject
UpdateDetectProject ==
    /\ pc = "detectProject"
    /\ IF ~proj.packageJson.exists
       THEN Fail("detectProject")
       ELSE /\ \E lockfiles \in LockFiles : StepWith("checkIntegration", Detected(lockfiles))
            /\ UNCHANGED <<proj, writes>>

\* UpdateCommand.execute: "Check if Solana integration exists"
UpdateCheckIntegration ==
    /\ pc = "checkIntegration"
    /\ IF ~proj.solkitrc.exists
       THEN Fail("notInitialized")
       ELSE Step("getConfig") /\ UNCHANGED <<proj, writes>>

\* UpdateCommand.execute: ConfigManager.getConfig and the copy of its result
UpdateGetConfig ==
    /\ pc = "getConfig"
    /\ LET loaded == GetConfig(proj.solkitrc)
           config == [loaded.config EXCEPT !.features = "loaded"]
           heap == [opts.heap EXCEPT !["loaded"] = loaded.config.features]
           original == Spread(config, heap)
       IN  StepWith("configure",
                    [opts EXCEPT !.loaded = loaded, !.current = config,
                                 !.originalConfig = original.config,
                                 !.heap = original.heap])
    /\ UNCHANGED <<proj, writes>>

\* UpdateCommand.execute: the --network option and the feature flags, then
\* promptForConfig without --yes
UpdateConfigure ==
    /\ pc = "configure"
    /\ LET config == IF opts.network # ""
                     THEN [opts.current EXCEPT !.network = opts.network]
                     ELSE opts.current
           heap == [opts.heap EXCEPT ![config.features] = @ \cup opts.flags]
           defaults == heap[config.features]
       IN  IF opts.yes
           THEN StepWith("compare", [opts EXCEPT !.current = config, !.heap = heap])
           ELSE \E network \in PromptNetworks,
                   features \in {defaults, defaults \cup {"nfts"}, defaults \ {"tokens"}} :
                   StepWith("compare",
                            [opts EXCEPT !.current = [network |-> network,
                                                      features |-> "answers",
                                                      useAppKit |-> FALSE],
                                         !.heap = [heap EXCEPT !["answers"] = features]])
    /\ UNCHANGED <<proj, writes>>

\* UpdateCommand.execute: "Check if there are any changes"
UpdateCompare ==
    /\ pc = "compare"
    /\ IF HasChanges(opts.originalConfig, opts.current, opts.heap)
       THEN StepWith("saveConfig",
                     [opts EXCEPT !.config = [opts.current EXCEPT
                                                 !.features = opts.heap[opts.current.features]]])
       ELSE Step("noChanges")
    /\ UNCHANGED <<proj, writes>>

UpdateNext ==
    \/ UpdateDetectProject
    \/ UpdateCheckIntegration
    \/ UpdateGetConfig
    \/ UpdateConfigure
    \/ UpdateCompare
    \/ InitSaveConfig
    \/ InitCreateEnvFile
    \/ InitInstallDependencies
    \/ InitGenerateAppKitIntegration
    \/ InitUpdatePackageJson
    \/ InitCreateAppKitEnvFile
    \/ InitUpdateHomePage
    \/ InitGenerateWalletAdapter
    \/ InitGenerateExampleComponent
    \/ InitUpdateNextConfig
    \/ InitUpdateAppEntryPoint

SpecUpdate == UpdateInit /\ [][UpdateNext]_vars

(***************************************************************************)
(* The paths init writes to.  A path is a sequence of segments, an absolute *)
(* path starting with the segment "/"; a relative path given to fs is       *)
(* resolved against the working directory of the process.                  *)
(***************************************************************************)
\* the normal form of a path: "." dropped, ".." taking the segment before it
RECURSIVE Normalize(_, _)
Normalize(path, done) ==
    IF path = <<>> THEN done
    ELSE IF Head(path) = "." THEN Normalize(Tail(path), done)
    ELSE IF Head(path) = ".."
    THEN Normalize(Tail(path),
                   IF Len(done) > 1 THEN Slice(done, 1, Len(done) - 1) ELSE done)
    ELSE Normalize(Tail(path), Append(done, Head(path)))

IsAbsolute(path) == path # <<>> /\ path[1] = "/"

\* path.resolve(path) in a process whose working directory is cwd
Resolve(cwd, path) ==
    IF IsAbsolute(path) THEN Normalize(path, <<>>) ELSE Normalize(cwd \o path, <<>>)

\* ProjectDetector.findSrcDir: the name of the first of src, app and pages
\* that exists in the project, "." when none does
FindSrcDir(projectRoot, dirs) ==
    IF "src" \in dirs THEN <<"src">>
    ELSE IF "app" \in dirs THEN <<"app">>
    ELSE IF "pages" \in dirs THEN <<"pages">>
    ELSE <<".">>

\* the working directories and the values of --dir, <<>> being no option
WorkingDirs == {<<"/", "home">>, <<"/", "work", "proj">>}
DirOptions == {<<>>, <<".">>, <<"proj">>, <<"..", "proj">>, <<"/", "work", "proj">>}

PathsInit ==
    /\ pc = "detectProject"
    /\ \E cwd \in WorkingDirs, dir \in DirOptions, dirs \in SUBSET {"src", "app", "pages"},
          useAppKit \in BOOLEAN :
          opts = [cwd |-> cwd, dir |-> dir, dirs |-> dirs, useAppKit |-> useAppKit,
                  projectRoot |-> <<>>, srcDir |-> <<>>]
    /\ proj = NoProject
    /\ writes = {}
    /\ passes = 1
    /\ tpl = <<>> /\ ctx = Obj(<<>>) /\ out = <<>> /\ rendered = FALSE
    /\ copy = NoCopy
    /\ fam = "none" /\ present = FALSE /\ file = <<>> /\ prev = <<>>
    /\ runs = 0 /\ res = NoResult

\* a step of init that creates or modifies the files and directories at paths
Touch(next, paths) ==
    /\ pc' = next
    /\ writes' = writes \cup {Resolve(opts.cwd, path) : path \in paths}
    /\ UNCHANGED <<opts, proj, passes>>
    /\ UNCHANGED tvars
    /\ UNCHANGED pvars

\* InitCommand.execute: options.dir || process.cwd(), and detectProject
PathsDetectProject ==
    /\ pc = "detectProject"
    /\ LET projectDir == IF opts.dir = <<>> THEN opts.cwd ELSE opts.dir
           projectRoot == Resolve(opts.cwd, projectDir)
       IN  opts' = [opts EXCEPT !.projectRoot = projectRoot,
                                !.srcDir = FindSrcDir(projectRoot, opts.dirs)]
    /\ pc' = "saveConfig"
    /\ UNCHANGED <<proj, writes, passes>>
    /\ UNCHANGED tvars
    /\ UNCHANGED pvars

\* ConfigManager.saveConfig
PathsSaveConfig ==
    /\ pc = "saveConfig"
    /\ Touch("createEnvFile", {opts.projectRoot \o <<".solkitrc">>})

\* ConfigManager.createEnvFile
PathsCreateEnvFile ==
    /\ pc = "createEnvFile"
    /\ Touch("init", {opts.projectRoot \o <<".env.local">>,
                      opts.projectRoot \o <<".env.example">>})

\* NextjsFramework.init: ensureDir of the solana directory
PathsEnsureSolanaDir ==
    /\ pc = "init"
    /\ Touch(IF opts.useAppKit THEN "generateAppKitIntegration" ELSE "generateWalletAdapter",
             {opts.srcDir \o <<"solana">>})

\* NextjsFramework.generateAppKitIntegration: the four target directories,
\* package.json and .env.local
PathsGenerateAppKitIntegration ==
    /\ pc = "generateAppKitIntegration"
    /\ Touch("generateExampleComponent",
             {opts.srcDir \o <<"config">>, opts.srcDir \o <<"context">>,
              opts.srcDir \o <<"components">>, opts.srcDir \o <<"hooks">>,
              opts.projectRoot \o <<"package.json">>,
              opts.projectRoot \o <<".env.local">>})

\* NextjsFramework.generateWalletAdapter
PathsGenerateWalletAdapter ==
    /\ pc = "generateWalletAdapter"
    /\ Touch("generateExampleComponent", {opts.srcDir \o <<"solana", "wallet">>})

\* NextjsFramework.generateExampleComponent
PathsGenerateExampleComponent ==
    /\ pc = "generateExampleComponent"
    /\ Touch("updateNextConfig", {opts.srcDir \o <<"components">>})

\* NextjsFramework.updateNextConfig
PathsUpdateNextConfig ==
    /\ pc = "updateNextConfig"
    /\ Touch("done", {opts.projectRoot \o <<"next.config.js">>})

PathsNext ==
    \/ PathsDetectProject
    \/ PathsSaveConfig
    \/ PathsCreateEnvFile
    \/ PathsEnsureSolanaDir
    \/ PathsGenerateAppKitIntegration
    \/ PathsGenerateWalletAdapter
    \/ PathsGenerateExampleComponent
    \/ PathsUpdateNextConfig

SpecPaths == PathsInit /\ [][PathsNext]_vars

(***************************************************************************)
(* Properties of the patchers.                                             *)
(***************************************************************************)
EntryFamilies == {"pages", "react", "layoutWalletAdapter", "layout", "vue3", "vue2"}
ImportAnchored == {"pages", "react", "layoutWalletAdapter", "layout"}

HasLexeme(content, L) == \E k \in 1..Len(content) : content[k] \in L

\* the marker the patcher of a family looks for; for the layout, the marker
\* of the configuration without AppKit
HasMarker(f, content) ==
    CASE f \in {"pages", "react"} -> Includes(content, "SolanaProvider")
      [] f = "layoutWalletAdapter" -> Includes(content, "ClientWalletProvider")
      [] f = "layout" -> Includes(content, "ClientWalletProvider")
      [] f \in {"vue3", "vue2"} -> Includes(content, "SolanaPlugin")
                                      \/ Includes(content, "solana/wallet")
      [] OTHER -> Includes(content, "@solana/wallet-adapter")

\* C1: a second run of a patcher changes no byte of the file the first run left.
C1_Idempotent == runs >= 2 => file = prev

\* C1 witness: the Pages Router patcher has run twice on an _app file that the
\* first run wrapped, and the second run found the provider
C1_Witness ==
    /\ runs = 2
    /\ fam = "pages"
    /\ Includes(file, "SolanaProvider")
    /\ HasLexeme(file, {OpenSolanaProviderNext})
    /\ res.log = {"debug"}

\* the file holds nothing of the anchor its patcher looks for
AnchorAbsent(f, content) ==
    CASE f \in {"vue3", "vue2"} -> ~HasLexeme(content, {CAPP, CHAIN, NEWVUE})
      [] f = "react" -> ~HasLexeme(content, {RDR, CRR})
      [] f = "pages" -> ~HasLexeme(content, {CMP, CMPD})
      [] OTHER -> ~HasLexeme(content, {CH})

\* C2: an entry-point patcher that finds neither its marker nor its anchor
\* leaves the file byte-identical and reports the failure (logger.warn, or
\* logger.error where the patcher fails by an exception).
C2_NonDestructiveFailure ==
    (/\ runs = 1
     /\ present
     /\ fam \in EntryFamilies
     /\ ~HasMarker(fam, prev)
     /\ AnchorAbsent(fam, prev))
        => (file = prev /\ res.log \cap {"warn", "error"} # {})

\* the file holds the import of the provider or plugin
HasImport(content) ==
    HasLexeme(content, {ImportSolanaProviderNext, ImportSolanaProviderReact,
                        ImportClientWalletProvider, ImportSolanaPlugin})

\* the file holds the wrap or the registration
HasRegistration(content) ==
    HasLexeme(content, {OpenSolanaProviderNext, OpenSolanaProviderReact,
                        OpenClientWalletProvider, AppUseSolanaPlugin,
                        ChainUseSolanaPlugin, PluginsSolanaPlugin,
                        ListSolanaPlugin, FirstSolanaPlugin})

\* C4: a written file holds the whole transform: the import with the wrap or
\* registration, or the transpilePackages entries with the webpack block.
C4_NoPartialApply ==
    (runs >= 1 /\ res.wrote) =>
        IF fam \in EntryFamilies
        THEN HasImport(file) /\ HasRegistration(file)
        ELSE Includes(file, "@solana/wallet-adapter") /\ Includes(file, "webpack")

\* the opening and closing text a wrapping patcher puts around the inner region
OpenTag(f) ==
    CASE f = "pages" -> OpenSolanaProviderNext
      [] f = "react" -> OpenSolanaProviderReact
      [] OTHER -> OpenClientWalletProvider

CloseTag(f) ==
    CASE f = "pages" -> CloseSolanaProviderNext
      [] f = "react" -> CloseSolanaProviderReact
      [] OTHER -> CloseClientWalletProvider

\* C8: after a wrap the captured inner text stands unchanged between the
\* opening and the closing provider tag, and the text outside the matched
\* region is unchanged.
C8_WrapPreservesInner ==
    (runs >= 1 /\ res.wrote /\ fam \in ImportAnchored /\ res.anchor.found) =>
        file = Slice(res.imported, 1, res.anchor.start - 1)
                   \o res.anchor.prefix \o <<OpenTag(fam)>> \o res.anchor.inner
                   \o <<CloseTag(fam)>> \o res.anchor.suffix
                   \o Slice(res.imported, res.anchor.end + 1, Len(res.imported))

\* the import text a patcher inserts after the last import line, and at the
\* start of a file without imports
AfterLastImport(f) ==
    CASE f = "pages" -> <<NL, ImportSolanaProviderNext>>
      [] f = "react" -> <<NL, ImportSolanaProviderReact>>
      [] OTHER -> <<NL, CommentClientWalletProvider, ImportClientWalletProvider>>

AtFileStart(f) ==
    CASE f = "pages" -> <<ImportSolanaProviderNext, NL>>
      [] f = "react" -> <<ImportSolanaProviderReact, NL>>
      [] OTHER -> <<CommentClientWalletProvider, ImportClientWalletProvider, NL>>

\* C9 as stated: the import is inserted right after the last import line of
\* the file, or at its start when it has none, all original text kept in order.
C9_ImportBlockAnchor ==
    (runs >= 1 /\ res.wrote /\ fam \in ImportAnchored) =>
        res.imported =
            IF ImportSection(prev) # {}
            THEN InsertAt(prev, Max(ImportSection(prev)), AfterLastImport(fam))
            ELSE AtFileStart(fam) \o prev

ConfigFamilies == {"configArray", "configObject"}

\* the first transpilePackages array of a config: its position and its end
ArrayAt(content) ==
    {t \in 1..Len(content) :
        content[t] = TP /\ \E b \in (t + 1)..Len(content) : content[b] = RB}

\* the entries of an array body without white space around them and without
\* a trailing comma
Entries(body) ==
    IF Trim(body) # <<>> /\ Trim(body)[Len(Trim(body))] = COMMA
    THEN Slice(Trim(body), 1, Len(Trim(body)) - 1)
    ELSE Trim(body)

\* the text of the last import line stands nowhere after that line
LastImportUnique(content) ==
    \A k \in (Max(ImportSection(content)) + 1)..Len(content) :
        content[Max(ImportSection(content))] \notin EndsWithText(content[k])

\* C9 amended: when the text of the last import line does not occur again
\* after it, the import is inserted right after that line; in a file with no
\* import line it is put at the start; all original text is kept in order.
C9_ImportBlockAnchorUnique ==
    (runs >= 1 /\ res.wrote /\ fam \in ImportAnchored) =>
        IF ImportSection(prev) = {} THEN res.imported = AtFileStart(fam) \o prev
        ELSE LastImportUnique(prev) =>
                res.imported = InsertAt(prev, Max(ImportSection(prev)),
                                        AfterLastImport(fam))

\* C9 witness: an _app file whose last import line is followed by a comment
\* that is not a copy of it got the import right after that line
C9_Witness ==
    /\ runs = 1
    /\ res.wrote
    /\ fam = "pages"
    /\ prev = <<CMTIMP, IMPL, RET, CMP, CL>>
    /\ Slice(res.imported, 1, 4) = <<CMTIMP, IMPL, NL, ImportSolanaProviderNext>>

\* C10 as stated: on a config without the marker, (a) the entries of an existing
\* transpilePackages array are kept in order and the new names follow them
\* after exactly one comma, an empty array getting none; (b) without the key,
\* the field is inserted right after the opening brace of
\* "module.exports = {" or "export default {"; and a re-run changes nothing.
C10_MergeOrInject ==
    (fam \in ConfigFamilies /\ runs >= 1) =>
        /\ (runs = 1 /\ res.wrote /\ ArrayAt(prev) # {}) =>
              LET t == Min(ArrayAt(prev))
                  b == Min({k \in (t + 1)..Len(prev) : prev[k] = RB})
                  body == Slice(prev, t + 1, b - 1)
              IN  res.imported =
                      Slice(prev, 1, t)
                          \o (IF Trim(body) = <<>> THEN <<OnlyPackages>>
                              ELSE Entries(body) \o <<COMMA, AppendPackages>>)
                          \o Slice(prev, b + 1, Len(prev))
        /\ (/\ runs = 1
            /\ res.wrote
            /\ ~HasLexeme(prev, {TP})
            /\ HasLexeme(prev, {ME, ED})) =>
              \E k \in 1..Len(prev) :
                  /\ prev[k] \in {ME, ED}
                  /\ res.imported = InsertAt(prev, k, <<InjectedField>>)
        /\ runs >= 2 => file = prev

\* C10 amended: as C10, the anchor of (b) being "module.exports = {" when the
\* text "module.exports" stands in the file and "export default {" when it
\* does not.
C10_MergeOrInjectByPrecedence ==
    (fam \in ConfigFamilies /\ runs >= 1) =>
        /\ (runs = 1 /\ res.wrote /\ ArrayAt(prev) # {}) =>
              LET t == Min(ArrayAt(prev))
                  b == Min({k \in (t + 1)..Len(prev) : prev[k] = RB})
                  body == Slice(prev, t + 1, b - 1)
              IN  res.imported =
                      Slice(prev, 1, t)
                          \o (IF Trim(body) = <<>> THEN <<OnlyPackages>>
                              ELSE Entries(body) \o <<COMMA, AppendPackages>>)
                          \o Slice(prev, b + 1, Len(prev))
        /\ (/\ runs = 1
            /\ res.wrote
            /\ ~HasLexeme(prev, {TP})
            /\ HasLexeme(prev, IF Includes(prev, "module.exports") THEN {ME} ELSE {ED})) =>
              LET anchor == IF Includes(prev, "module.exports") THEN ME ELSE ED
                  k == Min({i \in 1..Len(prev) : prev[i] = anchor})
              IN  res.imported = InsertAt(prev, k, <<InjectedField>>)
        /\ runs >= 2 => file = prev

\* C10 witness: the array ['x'] of a config has become ['x', <new entries>]
C10_Witness ==
    /\ runs = 1
    /\ fam = "configArray"
    /\ prev = <<TP, XPKG, RB, END>>
    /\ Slice(file, 1, 5) = <<TP, XPKG, COMMA, AppendPackages, WebpackConfig>>

\* the pre-existing files of a project that init and update patch
PatchedFiles == {"packageJson", "envLocal", "page", "nextConfig", "entry"}

\* C3: every write to a file that existed before the run is guarded: the
\* step first read the file and tested it for its marker.
C3_GuardMandatory ==
    \A w \in writes : (w.file \in PatchedFiles /\ w.existed) => w.guarded

\* the KEY=value lines of a lexeme of an environment file
KeyValues(lexeme) ==
    CASE lexeme \in {EnvAppKit, AppKitEnv}
            -> {"NEXT_PUBLIC_PROJECT_ID=b56e18d47c72ab683b10814fe9495694"}
      [] lexeme = EnvHeader -> {}
      [] OTHER -> {lexeme}

Assignments(content) == UNION {KeyValues(content[i]) : i \in 1..Len(content)}

\* C13: a run on a project whose .env.local exists loses none of its lines:
\* every KEY=value line the file had when the run started is in the file,
\* with the same value, when the run is over.
C13_EnvKeysKept ==
    (pc = "done" /\ opts.start.envLocal.exists)
        => Assignments(opts.start.envLocal.content)
               \subseteq Assignments(proj.envLocal.content)

\* the line of the environment content that the fixed table gives a network
RpcUrlLine(network) ==
    CASE network = "mainnet-beta"
            -> "NEXT_PUBLIC_SOLANA_RPC_URL=https://api.mainnet-beta.solana.com\n"
      [] network = "testnet" -> "NEXT_PUBLIC_SOLANA_RPC_URL=https://api.testnet.solana.com\n"
      [] network = "devnet" -> "NEXT_PUBLIC_SOLANA_RPC_URL=https://api.devnet.solana.com\n"
      [] network = "localnet" -> "NEXT_PUBLIC_SOLANA_RPC_URL=http://127.0.0.1:8899\n"
      [] OTHER -> ""

\* the run has generated the environment content and written it
EnvGenerated == \E w \in writes : w.file = "envExample" /\ w.at > opts.startedAt

\* C14: whatever network the run has accepted into its configuration, the
\* environment content it generates holds the line
\* NEXT_PUBLIC_SOLANA_RPC_URL=<url> with the url the fixed table gives that
\* network.
C14_NetworkRpcUrl ==
    EnvGenerated
        => /\ RpcUrlLine(opts.config.network) # ""
           /\ HasLexeme(proj.envExample.content, {RpcUrlLine(opts.config.network)})

\* the run has called getConfig
ConfigRead ==
    /\ pc \notin {"detectProject", "checkFramework", "getConfig"}
    /\ opts.fatal \notin {"detectProject", "framework"}

\* the configurations a .solkitrc document may hold, each with its document
Configs ==
    [network : NetworkNames \cup {""}, features : SUBSET FeatureNames, useAppKit : BOOLEAN]

Documents == {[config |-> c, content |-> Stringify(c)] : c \in Configs}

TemplateFiles == {"appKit", "solanaWallet", "solanaExample"}
SourceFiles == {"packageJson", "page", "nextConfig", "entry"}

\* the writes of the run that is going on
ThisRun == {w \in writes : w.at > opts.startedAt}

\* C16: the steps of a run come in the order detect, configure, install,
\* generate templates, patch existing files: a template is generated and a
\* pre-existing source file is patched only after the install has succeeded,
\* and a pre-existing file is patched only after every template of the run
\* has been generated.
C16_StepOrder ==
    /\ \A w \in ThisRun :
          (w.file \in TemplateFiles \/ (w.file \in SourceFiles /\ w.existed))
              => (opts.installedAt > 0 /\ w.at > opts.installedAt)
    /\ \A w, t \in ThisRun :
          (w.file \in SourceFiles /\ w.existed /\ t.file \in TemplateFiles)
              => t.at < w.at

\* the project directory is missing, or has no package.json, or --framework
\* names a framework that is not supported
Fatal ==
    \/ ~opts.dirExists
    \/ ~opts.start.packageJson.exists
    \/ opts.framework \notin {"", "react", "nextjs", "vue"}

\* C17: a run on a missing directory, on a directory without package.json, or
\* with an unsupported --framework gets no further than the detection and the
\* framework check, ends with success: false, and has created or modified no
\* file of the project.
C17_FatalAbortsBeforeChange ==
    Fatal => /\ pc \in {"detectProject", "checkFramework", "failed"}
             /\ pc = "failed" => opts.fatal \in {"detectProject", "framework"}
             /\ proj = opts.start
             /\ ThisRun = {}

\* a run with --framework svelte on a project with files has failed
C17_Witness ==
    /\ pc = "failed"
    /\ opts.framework = "svelte" /\ opts.fatal = "framework"
    /\ proj.packageJson.exists /\ proj.envLocal.exists /\ proj.entry.exists
    /\ proj = opts.start /\ writes = {}

\* C18: a patcher run on a file that already holds its marker writes nothing,
\* leaves the file as it is, and logs at debug level only: no warning and no
\* error.
C18_GuardHitSilent ==
    (runs >= 1 /\ present /\ HasMarker(fam, prev))
        => (file = prev /\ ~res.wrote /\ res.log = {"debug"})

\* the element names of the providers the layout is wrapped in
Providers == {"ClientWalletProvider", "ContextProvider", "AppKitProvider"}

Names(lexeme, N) == WordsIn(lexeme) \cap N # {}

\* {children} stands between the opening and the closing tag of a provider
ProviderWraps(content) ==
    \E i \in 2..(Len(content) - 1) :
        /\ content[i] = CH
        /\ Names(content[i - 1], Providers) /\ Names(content[i + 1], Providers)

ProviderImported(content) ==
    \E i \in 1..Len(content) : content[i] \in ImportLines /\ Names(content[i], Providers)

\* a body element directly around {children}
BodyWrapsChildren(content) ==
    \E i \in 2..(Len(content) - 1) :
        content[i - 1] = BODYO /\ content[i] = CH /\ content[i + 1] = BODYC

\* C19: a run of init on an App Router project whose layout exists, holds no
\* provider marker and has a body element around {children} rewrites the
\* layout: {children} is wrapped in the provider and the import of the
\* provider is added.
C19_LayoutPatched ==
    (/\ pc = "done"
     /\ opts.isAppRouter
     /\ opts.start.entry.exists
     /\ BodyWrapsChildren(opts.start.entry.content)
     /\ \A i \in 1..Len(opts.start.entry.content) :
            ~Names(opts.start.entry.content[i], Providers))
        => /\ \E w \in ThisRun : w.file = "entry"
           /\ ProviderWraps(proj.entry.content)
           /\ ProviderImported(proj.entry.content)

\* the patterns of the chain: a body element directly around {children}
\* (BodyWrapsChildren), a body element with {children} among siblings, a
\* return statement with {children}
BodyHoldsChildren(content) ==
    \E i, j, k \in 1..Len(content) :
        i < j /\ j < k /\ content[i] = BODYO /\ content[j] = CH /\ content[k] = BODYC

ReturnHoldsChildren(content) ==
    \E i, j \in 1..Len(content) : i < j /\ content[i] = RET /\ content[j] = CH

\* C20: the layout patcher locates {children} by the first pattern of its
\* chain that matches and wraps it; if no pattern matches it warns and writes
\* nothing, the layout staying as it was.
C20_FallbackChain ==
    (runs = 1 /\ present /\ fam = "layout" /\ ~HasMarker(fam, prev))
        => IF \/ BodyWrapsChildren(prev)
              \/ BodyHoldsChildren(prev)
              \/ ReturnHoldsChildren(prev)
           THEN res.wrote /\ ProviderWraps(file)
           ELSE ~res.wrote /\ file = prev /\ "warn" \in res.log

\* C21: updateNextConfig on an existing config without the marker, in which
\* neither a transpilePackages array nor the opening brace of
\* "module.exports = {" or "export default {" can be located, leaves the file
\* byte-identical and reports a warning.
C21_NoAnchorLeavesConfig ==
    (/\ fam \in ConfigFamilies
     /\ runs = 1
     /\ present
     /\ ~HasMarker(fam, prev)
     /\ ArrayAt(prev) = {}
     /\ ~HasLexeme(prev, {ME, ED}))
        => (file = prev /\ "warn" \in res.log)

\* the run is an update whose flags enable a feature that the saved
\* .solkitrc has disabled
FlagEnables ==
    /\ opts.start.solkitrc.exists
    /\ ParseJson(opts.start.solkitrc.content).ok
    /\ opts.flags \ ParseJson(opts.start.solkitrc.content).value.features # {}

\* the steps of a run after the comparison has found changes
Applying ==
    {"saveConfig", "createEnvFile", "installDependencies", "generateAppKitIntegration",
     "updatePackageJson", "createAppKitEnvFile", "updateHomePage",
     "generateWalletAdapter", "generateExampleComponent", "updateNextConfig",
     "updateAppEntryPoint", "done"}

\* C22: an update run with --yes whose flag enables a feature that the saved
\* configuration has disabled does not end with "No changes to apply": the configuration is
\* saved with the feature enabled and the framework integration is run again.
C22_FeatureFlagApplied ==
    (FlagEnables /\ opts.yes) =>
        /\ pc # "noChanges"
        /\ pc = "done" =>
              /\ opts.flags \subseteq ParseJson(proj.solkitrc.content).value.features
              /\ \E w \in ThisRun : w.file \in TemplateFiles

\* C28: an update on a project without .solkitrc fails, and an update whose
\* resulting configuration equals the saved one (network and feature flags)
\* ends with "No changes needed"; in both cases the run writes no file and
\* installs nothing.
C28_NothingToDoWritesNothing ==
    /\ (~opts.start.solkitrc.exists /\ opts.start.packageJson.exists)
          => pc \in {"detectProject", "checkIntegration", "failed"}
    /\ (pc = "failed" /\ opts.fatal = "notInitialized") \/ pc = "noChanges"
          => (proj = opts.start /\ ThisRun = {} /\ opts.installs = {})
    /\ (pc \in Applying /\ ParseJson(opts.start.solkitrc.content).ok)
          => \/ opts.config.network # opts.loaded.config.network
             \/ opts.config.features # opts.loaded.config.features

\* C23: a failure while one of the patchers works on a file that was there
\* before the run is logged by that patcher and goes no further: the run has
\* not failed, and the steps after the patcher are still taken.
C23_PatchFailureContained ==
    /\ "updateNextConfig" \in opts.errors => pc \in {"updateAppEntryPoint", "done"}
    /\ "updateAppEntryPoint" \in opts.errors => pc = "done"

\* the steps of init that copy template directories
TemplateSteps ==
    {"generateAppKitIntegration", "generateWalletAdapter", "generateExampleComponent"}

\* the files written by the steps that come after a step of init
LaterFiles(step) ==
    IF step = "generateAppKitIntegration"
    THEN {"packageJson", "page", "solanaExample", "nextConfig", "entry"}
    ELSE IF step = "generateWalletAdapter"
    THEN {"solanaExample", "nextConfig", "entry"}
    ELSE {"nextConfig", "entry"}

\* C24: when a step of init finds a template directory missing, the run ends
\* there with success: false: no later step has written anything, and the
\* files written before the failure are still in the project.
C24_TemplateFailureAborts ==
    \A step \in opts.errors \cap TemplateSteps :
        /\ pc = "failed" /\ opts.fatal = step
        /\ \A w \in ThisRun : w.file \notin LaterFiles(step)
        /\ \A w \in ThisRun : proj[w.file].exists
        /\ proj.solkitrc.exists /\ proj.envExample.exists

\* the hooks templates are missing: the run has failed after .solkitrc, the
\* environment files and the first AppKit files were created
C24_Witness ==
    /\ pc = "failed" /\ opts.fatal = "generateAppKitIntegration"
    /\ "generateAppKitIntegration" \in opts.errors
    /\ ~opts.start.solkitrc.exists /\ proj.solkitrc.exists
    /\ ~opts.start.appKit.exists /\ proj.appKit.exists
    /\ ~proj.page.exists

\* the commas a lexeme of a plugins array carries
Commas(lexeme) == IF lexeme \in {PENTC, ListSolanaPlugin} THEN 1 ELSE 0

\* C25: when updateMainFile registers the plugin in a "new Vue({...})" call,
\* (a) an existing plugins array keeps its entries and gets SolanaPlugin after
\* them, with exactly one comma between the last entry and SolanaPlugin, and no
\* comma in an empty array; (b) without a plugins field, "plugins:
\* [SolanaPlugin]" is put inside the options of that call and nowhere else in
\* the file, empty options included.
C25_Vue2PluginsMergeOrInject ==
    (fam = "vue2" /\ runs = 1 /\ res.wrote /\ ~Includes(res.imported, "createApp(")) =>
        LET w == res.imported
            n == Len(w)
            V == {v \in 1..n : w[v] = NEWVUE /\ \E e \in (v + 1)..n : w[e] = VEND}
        IN  V # {} =>
            LET v == Min(V)
                e == Min({k \in (v + 1)..n : w[k] = VEND})
                options == Slice(w, v + 1, e - 1)
                P == {p \in (v + 1)..(e - 1) :
                         w[p] = PLUG /\ \E q \in (p + 1)..(e - 1) : w[q] = PE}
            IN  /\ P # {} =>
                      LET p == Min(P)
                          q == Min({k \in (p + 1)..(e - 1) : w[k] = PE})
                          list == Slice(w, p + 1, q - 1)
                      IN  (\A i \in 1..Len(list) : list[i] \in {PENT, PENTC}) =>
                              \E added \in {ListSolanaPlugin, FirstSolanaPlugin} :
                                  /\ file = Slice(w, 1, q - 1) \o <<added>> \o Slice(w, q, n)
                                  /\ Commas(added)
                                         + (IF list = <<>> THEN 0
                                            ELSE Commas(list[Len(list)]))
                                       = (IF list = <<>> THEN 0 ELSE 1)
                /\ (\A i \in 1..Len(options) : options[i] \in {PENT, PENTC}) =>
                      \E k \in v..(e - 1) :
                          file = InsertAt(w, k, <<PluginsSolanaPlugin>>)

C27_HostPackageManager ==
    \A command \in opts.installs :
        command = (IF "yarn.lock" \in opts.lockfiles THEN "yarn add"
                   ELSE IF "pnpm-lock.yaml" \in opts.lockfiles THEN "pnpm add"
                   ELSE "npm install")

\* root is the path or a directory above it
Under(path, root) == Len(path) >= Len(root) /\ Slice(path, 1, Len(root)) = root

\* C29: whatever --dir is, the working directory or not, every file and
\* directory that init creates or modifies lies under the detected
\* projectRoot.
C29_WritesUnderProjectRoot ==
    \A path \in writes : Under(path, opts.projectRoot)

\* DoctorCommand.checkNextjsIntegration, checkReactIntegration and
\* checkVueIntegration on the entry file of a family: whether the provider or
\* the plugin is reported as found
DoctorFinds(f, content) ==
    IF f \in {"vue3", "vue2"}
    THEN Includes(content, "SolanaPlugin") \/ Includes(content, "solana/wallet")
    ELSE Includes(content, "SolanaProvider")

\* C30: in the entry file that the patcher of a variant has written, doctor
\* finds the marker it searches for in that file.
C30_DoctorFindsMarker ==
    (fam \in EntryFamilies /\ runs >= 1 /\ res.wrote) => DoctorFinds(fam, file)

=============================================================================
